---- MODULE Spec2Model ----
(***************************************************************************)
(* Notes dashboard and optimistic-concurrency note updates.                *)
(*                                                                         *)
(* Spec      : the notes table and the server actions that write it        *)
(*             (createNote, updateNoteContent, deleteNote, togglePinNote,  *)
(*             toggleArchiveNote), called from two browser sessions.       *)
(* SpecParams: parsing of the page and pageSize query parameters.          *)
(* SpecList  : one render of the dashboard page (filter, sort, paginate).  *)
(* SpecFlags : listNotesForUser and the pin, archive and delete actions    *)
(*             over a table of notes of two owners.                        *)
(* SpecCats  : createCategory and renameCategory.                          *)
(* SpecRefs  : notes that reference categories, and deleteCategory.        *)
(* SpecRace  : the same, with the note writes split at the store calls.    *)
(* SpecPager : the pagination component and its clicks.                    *)
(* SpecToolbar: the toolbar, its debounce timer and its URL updates.       *)
(***************************************************************************)
EXTENDS Integers, Sequences, FiniteSets, TLC

\* ------------------------------------------------------------------------
\* Bounds
\* ------------------------------------------------------------------------
MaxNotes == 1
MaxRev == 1
MaxClock == 4
MaxLen == 3
MaxPool == 6
MaxRows == 2
MaxCalls == 2
MaxCats == 3
MaxPages == 8

\* ------------------------------------------------------------------------
\* Values
\* ------------------------------------------------------------------------
Users == {"u1", "u2"}
NoUser == "anonymous"
Sessions == {"s1", "s2"}
NoteIds == 1..MaxNotes
NullTime == 0
Undefined == "undefined"
DefaultTitle == "Untitled"
DefaultContent == "doc"
TitleInputs == {Undefined, "", "t1"}
ValidTitles == {Undefined, "t1"}
\* both sessions are tabs of the same signed-in user
SessionUser == [s \in Sessions |-> "u1"]
\* the document each session's editor holds
Draft == [s \in Sessions |-> IF s = "s1" THEN "c1" ELSE "c2"]
RevInputs == 0..MaxRev
\* the calls a session makes: every well-formed input, one input with an
\* empty title, one with a negative revision, and one without a signed-in user
UpdateCalls(s) ==
    [userId : {SessionUser[s]}, id : NoteIds, title : ValidTitles, rev : RevInputs]
    \cup {[userId |-> SessionUser[s], id |-> 1, title |-> "", rev |-> 0],
          [userId |-> SessionUser[s], id |-> 1, title |-> Undefined, rev |-> -1],
          [userId |-> NoUser, id |-> 1, title |-> Undefined, rev |-> 0]}

VARIABLES
    notes,      \* the notes table: id -> row, for the ids inserted so far
    now,        \* the clock read by new Date()
    sess,       \* per session: the updateNoteContent call in progress
    updates,    \* per note id: number of content updates that succeeded
    raw,        \* SpecParams: the raw parameter text
    parsed,     \* SpecParams: the result of parsing it
    allNotes,   \* SpecList: the notes handed to the page
    searchParams, \* SpecList: the query parameters of the request
    view,       \* SpecList: what the page computed
    cats,       \* the categories table: id -> row
    reply,      \* the outcome of the last flag, delete or category call
    pending,    \* SpecRefs: the call between its check and its write
    pager,      \* SpecPager: the pagination component and its props
    toolbar,    \* SpecToolbar: the state of the toolbar component
    timers,     \* SpecToolbar: the pending setTimeout callbacks, oldest first
    pushes      \* the number of router.push calls made

storeVars == <<notes, now, sess, updates>>
pageVars == <<raw, parsed, allNotes, searchParams, view>>
callVars == <<cats, reply, pending>>
clientVars == <<pager, toolbar, timers, pushes>>
vars ==
    <<notes, now, sess, updates, raw, parsed, allNotes, searchParams, view,
      cats, reply, pending, pager, toolbar, timers, pushes>>

\* ------------------------------------------------------------------------
\* JavaScript values used by the dashboard page
\* ------------------------------------------------------------------------

\* a text is a sequence of characters; a number is NaN or an integer
Num(v) == [nan |-> FALSE, v |-> v]
NaN == [nan |-> TRUE, v |-> 0]

\* an absent query parameter, and one carrying the text t
Missing == [present |-> FALSE, text |-> <<>>]
Given(t) == [present |-> TRUE, text |-> t]

Digits == {"0", "1", "2", "3", "4", "5", "6", "7", "8", "9"}

DigitValue(c) ==
    CASE c = "0" -> 0 [] c = "1" -> 1 [] c = "2" -> 2 [] c = "3" -> 3
      [] c = "4" -> 4 [] c = "5" -> 5 [] c = "6" -> 6 [] c = "7" -> 7
      [] c = "8" -> 8 [] c = "9" -> 9

\* param || fallback: undefined and "" are both falsy
OrElse(param, fallback) ==
    IF param.present /\ param.text # <<>> THEN param.text ELSE fallback

RECURSIVE TrimStart(_)
TrimStart(t) ==
    IF t # <<>> /\ Head(t) = " " THEN TrimStart(Tail(t)) ELSE t

RECURSIVE TrimEnd(_)
TrimEnd(t) ==
    IF t # <<>> /\ t[Len(t)] = " " THEN TrimEnd(SubSeq(t, 1, Len(t) - 1)) ELSE t

\* String.prototype.trim
Trim(t) == TrimEnd(TrimStart(t))

\* the longest prefix of t made of decimal digits
RECURSIVE DigitPrefix(_)
DigitPrefix(t) ==
    IF t # <<>> /\ Head(t) \in Digits
    THEN <<Head(t)>> \o DigitPrefix(Tail(t))
    ELSE <<>>

RECURSIVE DecimalValue(_)
DecimalValue(d) ==
    IF d = <<>> THEN 0
    ELSE 10 * DecimalValue(SubSeq(d, 1, Len(d) - 1)) + DigitValue(d[Len(d)])

\* parseInt(t): leading white space skipped, an optional sign, then the
\* longest run of digits; NaN when there is no digit there
ParseInt(t) ==
    LET u == TrimStart(t)
        signed == u # <<>> /\ Head(u) \in {"-", "+"}
        body == IF signed THEN Tail(u) ELSE u
        d == DigitPrefix(body)
    IN  IF d = <<>> THEN NaN
        ELSE IF signed /\ Head(u) = "-" THEN Num(0 - DecimalValue(d))
        ELSE Num(DecimalValue(d))

DigitChar(n) ==
    CASE n = 0 -> "0" [] n = 1 -> "1" [] n = 2 -> "2" [] n = 3 -> "3"
      [] n = 4 -> "4" [] n = 5 -> "5" [] n = 6 -> "6" [] n = 7 -> "7"
      [] n = 8 -> "8" [] n = 9 -> "9"

\* Number.prototype.toString of an integer
RECURSIVE DecimalText(_)
DecimalText(n) ==
    IF n < 10 THEN <<DigitChar(n)>>
    ELSE DecimalText(n \div 10) \o <<DigitChar(n % 10)>>

NumberToString(n) == IF n < 0 THEN <<"-">> \o DecimalText(0 - n) ELSE DecimalText(n)

\* Math.max and Math.min: NaN when an argument is NaN
MathMax(a, b) ==
    IF a.nan \/ b.nan THEN NaN ELSE IF a.v >= b.v THEN a ELSE b

MathMin(a, b) ==
    IF a.nan \/ b.nan THEN NaN ELSE IF a.v <= b.v THEN a ELSE b

MinPageSize == 5
MaxPageSize == 100
DefaultPageSize == <<"2", "0">>
DefaultPage == <<"1">>

\* Math.max(parseInt(searchParams.page || "1"), 1)
NormalizePage(param) == MathMax(ParseInt(OrElse(param, DefaultPage)), Num(1))

\* Math.min(Math.max(parseInt(searchParams.pageSize || "20"), 5), 100)
NormalizePageSize(param) ==
    MathMin(MathMax(ParseInt(OrElse(param, DefaultPageSize)), Num(MinPageSize)),
            Num(MaxPageSize))

\* nothing parsed yet, no request, nothing rendered
NotParsed == [param |-> "none", value |-> NaN]
NoRequest ==
    [q |-> Missing, category |-> Missing, page |-> Missing,
     pageSize |-> Missing, includeArchived |-> Missing]
NotRendered ==
    [rendered |-> FALSE, page |-> NaN, pageSize |-> NaN, total |-> 0,
     pageCount |-> NaN, items |-> <<>>, pagination |-> FALSE]

\* ------------------------------------------------------------------------
\* The notes table
\* ------------------------------------------------------------------------
\* a revision counter that starts at one
FirstRevOne == 0 + 1

\* rev: integer('rev').notNull().default(0)
FirstRev == 0

NoteRow(userId, title, content) ==
    [userId |-> userId, title |-> title, content |-> content, rev |-> FirstRev,
     categoryId |-> Undefined, isPinned |-> FALSE, isArchived |-> FALSE,
     updatedAt |-> now, deletedAt |-> NullTime]

IdleSession ==
    [pc |-> "idle", userId |-> NoUser, id |-> 0, rev |-> 0,
     content |-> "", title |-> Undefined, fresh |-> FALSE,
     out |-> "", ret |-> 0]

\* z.string().min(1).max(255).optional()
TitleValid(title) == title = Undefined \/ title # ""

\* z.number().int().nonnegative()
RevValid(rev) == rev >= 0

\* the predicate without eq(notes.rev, rev): a plain owner-scoped write
WhereUpdateNoRev(row, userId, rev) ==
    /\ row.userId = userId
    /\ row.deletedAt = NullTime

\* the predicate without isNull(notes.deletedAt)
WhereUpdateNoDeleted(row, userId, rev) ==
    /\ row.userId = userId
    /\ row.rev = rev

\* the compound predicate of the conditional update, on the row with the id
WhereUpdate(row, userId, rev) ==
    /\ row.userId = userId
    /\ row.deletedAt = NullTime
    /\ row.rev = rev

\* and(eq(id), eq(userId), isNull(deletedAt)) on the row with the id
WhereOwned(row, userId) ==
    /\ row.userId = userId
    /\ row.deletedAt = NullTime

\* the set clause without the increment
NextRevStale(rev) == rev

\* rev: rev + 1
NextRev(rev) == rev + 1

\* the .set({...}) of updateNoteContent
SetContent(row, content, title, rev) ==
    [row EXCEPT !.content = content,
                !.title = IF title # Undefined /\ title # "" THEN title ELSE @,
                !.rev = NextRev(rev),
                !.updatedAt = now]

Matched(id, userId, rev) ==
    /\ id \in DOMAIN notes
    /\ WhereUpdate(notes[id], userId, rev)

\* no client component is mounted
NoPager ==
    [rendered |-> FALSE, shown |-> FALSE, currentPage |-> 0, pageCount |-> 0,
     pages |-> <<>>, asked |-> 0]
NotMounted ==
    [mounted |-> FALSE, search |-> <<>>, category |-> "<null>",
     includeArchived |-> FALSE, loaded |-> NoRequest, changes |-> 0]
ClientIdle ==
    /\ pager = NoPager
    /\ toolbar = NotMounted
    /\ timers = <<>>
    /\ pushes = 0

\* no page is being rendered
PageIdle ==
    /\ raw = Missing
    /\ parsed = NotParsed
    /\ allNotes = <<>>
    /\ searchParams = NoRequest
    /\ view = NotRendered

\* no flag, delete or category call has been made
NoCall ==
    [userId |-> NoUser, id |-> "<null>",
     resolution |-> [clear |-> FALSE, reassignTo |-> "<null>"]]
NoReply == [op |-> "none", out |-> "", rows |-> 0, call |-> NoCall]

\* no createNote call is between its check and its insert
NoPending ==
    [active |-> FALSE, userId |-> NoUser, id |-> 0, categoryId |-> "<null>"]

StoreInit ==
    /\ cats = <<>>
    /\ reply = NoReply
    /\ pending = NoPending
    /\ notes = <<>>
    /\ now = 1
    /\ sess = [s \in Sessions |-> IdleSession]
    /\ updates = [i \in NoteIds |-> 0]

\* createNote: insert a row with the defaults of the schema
createNote(userId, title, content) ==
    /\ now < MaxClock
    /\ Len(notes) < MaxNotes
    /\ userId # NoUser
    /\ TitleValid(title)
    /\ notes' = Append(notes,
           NoteRow(userId,
                   IF title = Undefined THEN DefaultTitle ELSE title,
                   IF content = Undefined THEN DefaultContent ELSE content))
    /\ now' = now + 1
    /\ UNCHANGED <<sess, updates>>
    /\ UNCHANGED pageVars
    /\ UNCHANGED clientVars
    /\ UNCHANGED callVars

\* updateNoteContent up to its await: auth(), the schema parse, and the
\* request sent to the database
updateNoteContentCall(s, userId, id, content, title, rev) ==
    /\ sess[s].pc \in {"idle", "done"}
    /\ sess' = [sess EXCEPT ![s] =
          IF userId = NoUser
          THEN [IdleSession EXCEPT !.pc = "done", !.out = "Unauthorized"]
          ELSE IF ~(TitleValid(title) /\ RevValid(rev))
          THEN [IdleSession EXCEPT !.pc = "done", !.out = "ValidationError"]
          ELSE [pc |-> "await", userId |-> userId, id |-> id, rev |-> rev,
                content |-> content, title |-> title,
                fresh |-> Matched(id, userId, rev),
                out |-> "", ret |-> 0]]
    /\ UNCHANGED <<notes, now, updates>>
    /\ UNCHANGED pageVars
    /\ UNCHANGED clientVars
    /\ UNCHANGED callVars

\* updateNoteContent from its await on: the conditional UPDATE ... RETURNING
\* as one atomic statement, then the check of the returned rows
updateNoteContentWrite(s) ==
    LET r == sess[s] IN
    /\ r.pc = "await"
    /\ IF Matched(r.id, r.userId, r.rev)
       THEN /\ now < MaxClock
            /\ notes' = [notes EXCEPT ![r.id] =
                            SetContent(@, r.content, r.title, r.rev)]
            /\ now' = now + 1
            /\ updates' = [updates EXCEPT ![r.id] = @ + 1]
            /\ sess' = [sess EXCEPT ![s].pc = "done", ![s].out = "Ok",
                                    ![s].ret = notes'[r.id].rev]
       ELSE /\ sess' = [sess EXCEPT ![s].pc = "done", ![s].out = "Conflict"]
            /\ UNCHANGED <<notes, now, updates>>
    /\ UNCHANGED pageVars
    /\ UNCHANGED clientVars
    /\ UNCHANGED callVars

\* deleteNote: soft delete of a live note of the caller
deleteNote(userId, id) ==
    /\ now < MaxClock
    /\ userId # NoUser
    /\ id \in DOMAIN notes
    /\ WhereOwned(notes[id], userId)
    /\ notes' = [notes EXCEPT ![id].deletedAt = now, ![id].updatedAt = now]
    /\ now' = now + 1
    /\ UNCHANGED <<sess, updates>>
    /\ UNCHANGED pageVars
    /\ UNCHANGED clientVars
    /\ UNCHANGED callVars

\* a pin that also counts as a revision of the note
togglePinNoteBumpsRev(userId, id, pin) ==
    /\ now < MaxClock
    /\ userId # NoUser
    /\ id \in DOMAIN notes
    /\ WhereOwned(notes[id], userId)
    /\ notes' = [notes EXCEPT ![id].isPinned = pin, ![id].updatedAt = now,
                              ![id].rev = @ + 1]
    /\ now' = now + 1
    /\ UNCHANGED <<sess, updates>>
    /\ UNCHANGED pageVars
    /\ UNCHANGED clientVars
    /\ UNCHANGED callVars

\* togglePinNote: set isPinned on a live note of the caller
togglePinNote(userId, id, pin) ==
    /\ now < MaxClock
    /\ userId # NoUser
    /\ id \in DOMAIN notes
    /\ WhereOwned(notes[id], userId)
    /\ notes' = [notes EXCEPT ![id].isPinned = pin, ![id].updatedAt = now]
    /\ now' = now + 1
    /\ UNCHANGED <<sess, updates>>
    /\ UNCHANGED pageVars
    /\ UNCHANGED clientVars
    /\ UNCHANGED callVars

\* toggleArchiveNote: set isArchived on a live note of the caller
toggleArchiveNote(userId, id, archive) ==
    /\ now < MaxClock
    /\ userId # NoUser
    /\ id \in DOMAIN notes
    /\ WhereOwned(notes[id], userId)
    /\ notes' = [notes EXCEPT ![id].isArchived = archive, ![id].updatedAt = now]
    /\ now' = now + 1
    /\ UNCHANGED <<sess, updates>>
    /\ UNCHANGED pageVars
    /\ UNCHANGED clientVars
    /\ UNCHANGED callVars

Next ==
    \/ \E u \in Users, t \in {Undefined, ""} : createNote(u, t, Undefined)
    \/ \E s \in Sessions : \E c \in UpdateCalls(s) :
          updateNoteContentCall(s, c.userId, c.id, Draft[s], c.title, c.rev)
    \/ \E s \in Sessions : updateNoteContentWrite(s)
    \/ \E u \in Users, i \in NoteIds : deleteNote(u, i)
    \/ \E u \in Users, i \in NoteIds, b \in BOOLEAN : togglePinNote(u, i, b)
    \/ \E u \in Users, i \in NoteIds, b \in BOOLEAN : toggleArchiveNote(u, i, b)

Init == StoreInit /\ PageIdle /\ ClientIdle

Spec == Init /\ [][Next]_vars

\* ------------------------------------------------------------------------
\* Properties of the store (Spec)
\* ------------------------------------------------------------------------

\* the row the call of session s addresses is there, is the caller's, is not
\* soft-deleted and carries the revision the call expects
Hit(s) ==
    /\ sess[s].id \in DOMAIN notes
    /\ notes[sess[s].id].userId = sess[s].userId
    /\ notes[sess[s].id].deletedAt = NullTime
    /\ notes[sess[s].id].rev = sess[s].rev

\* session s completes its database write in this step
Completes(s) == sess[s].pc = "await" /\ sess'[s].pc = "done"

\* both sessions have finished an update of the same live note, each called
\* with the same expected revision while that was the note's revision
Raced(s, t) ==
    /\ s # t
    /\ sess[s].pc = "done" /\ sess[t].pc = "done"
    /\ sess[s].fresh /\ sess[t].fresh
    /\ sess[s].id = sess[t].id
    /\ sess[s].rev = sess[t].rev
    /\ notes[sess[s].id].deletedAt = NullTime

\* C1: two concurrent updateNoteContent calls on the same live note by its
\* owner, both with expectedRevision equal to the note's revision, end with
\* exactly one success and one Conflict; the success returns
\* expectedRevision+1, which is the note's revision, and the stored content
\* is that of the successful call.
C1_OneWinner ==
    \A s \in Sessions, t \in Sessions :
        Raced(s, t) =>
            /\ {sess[s].out, sess[t].out} = {"Ok", "Conflict"}
            /\ notes[sess[s].id].rev = sess[s].rev + 1
            /\ \A w \in {s, t} :
                  sess[w].out = "Ok" =>
                      /\ sess[w].ret = sess[w].rev + 1
                      /\ notes[sess[w].id].content = sess[w].content

C1_Witness ==
    /\ Raced("s1", "s2")
    /\ sess["s1"].out = "Conflict"
    /\ sess["s2"].out = "Ok"
    /\ notes[sess["s2"].id].content = Draft["s2"]

\* C2: updateNoteContent succeeds if and only if a note with id = noteId,
\* owner = ownerId, deletedAt = null and revision = expectedRevision exists
\* at the time of the write; on success the content is written, the title is
\* written when one is given and kept otherwise, the revision becomes
\* expectedRevision+1 and that revision is returned.
C2_UpdateContract ==
    [][\A s \in Sessions :
          Completes(s) =>
              /\ (sess'[s].out = "Ok") <=> Hit(s)
              /\ Hit(s) =>
                    /\ notes'[sess[s].id].content = sess[s].content
                    /\ notes'[sess[s].id].title =
                          IF sess[s].title = Undefined
                          THEN notes[sess[s].id].title
                          ELSE sess[s].title
                    /\ notes'[sess[s].id].rev = sess[s].rev + 1
                    /\ sess'[s].ret = sess[s].rev + 1]_vars

C2_Witness ==
    \E s \in Sessions :
        /\ sess[s].pc = "done" /\ sess[s].out = "Ok"
        /\ sess[s].title = "t1"
        /\ notes[sess[s].id].title = "t1"
        /\ notes[sess[s].id].content = Draft[s]
        /\ sess[s].ret = sess[s].rev + 1

C3_AbsentReached ==
    \E s \in Sessions :
        sess[s].out = "Conflict" /\ sess[s].id \notin DOMAIN notes
C3_OtherOwnerReached ==
    \E s \in Sessions :
        /\ sess[s].out = "Conflict" /\ sess[s].id \in DOMAIN notes
        /\ notes[sess[s].id].userId # sess[s].userId
        /\ notes[sess[s].id].rev = sess[s].rev
        /\ notes[sess[s].id].deletedAt = NullTime
C3_StaleRevReached ==
    \E s \in Sessions :
        /\ sess[s].out = "Conflict" /\ sess[s].id \in DOMAIN notes
        /\ notes[sess[s].id].userId = sess[s].userId
        /\ notes[sess[s].id].rev # sess[s].rev
        /\ notes[sess[s].id].deletedAt = NullTime

\* C4: a note's revision is 0 when the note is created and always equals the
\* number of successful content updates applied to it; it never decreases.
C4_RevCountsUpdates ==
    [][\A i \in DOMAIN notes' :
          /\ notes'[i].rev = updates'[i]
          /\ i \notin DOMAIN notes => notes'[i].rev = 0
          /\ i \in DOMAIN notes =>
                /\ notes'[i].rev >= notes[i].rev
                /\ notes'[i].rev - notes[i].rev =
                      Cardinality({s \in Sessions :
                          /\ Completes(s) /\ sess'[s].out = "Ok"
                          /\ sess[s].id = i})]_vars

C4_Witness ==
    \E i \in DOMAIN notes :
        /\ notes[i].rev = 2 /\ updates[i] = 2


\* the fields of a note that neither flag action may write
Kept(row) ==
    [userId |-> row.userId, title |-> row.title, content |-> row.content,
     rev |-> row.rev, categoryId |-> row.categoryId, deletedAt |-> row.deletedAt]

\* C14: a successful togglePin changes only isPinned and updatedAt of the
\* target note, and a successful toggleArchive only isArchived and updatedAt:
\* the other flag, title, content, categoryId, owner, deletedAt and rev are
\* unchanged, as is every other note, so an updateNoteContent that would
\* match with the revision read before the flag change still matches after.
\* (A flag step writes the notes table and no session record.)
C14_FlagsFrame ==
    [][(notes' # notes /\ sess' = sess /\ Len(notes') = Len(notes)) =>
       \A u \in Users, i \in NoteIds, b \in BOOLEAN :
          /\ togglePinNote(u, i, b) =>
                /\ Kept(notes'[i]) = Kept(notes[i])
                /\ notes'[i].isArchived = notes[i].isArchived
                /\ notes'[i].isPinned = b
          /\ toggleArchiveNote(u, i, b) =>
                /\ Kept(notes'[i]) = Kept(notes[i])
                /\ notes'[i].isPinned = notes[i].isPinned
                /\ notes'[i].isArchived = b
          /\ (togglePinNote(u, i, b) \/ toggleArchiveNote(u, i, b)) =>
                /\ \A j \in DOMAIN notes : j # i => notes'[j] = notes[j]
                /\ DOMAIN notes' = DOMAIN notes
                /\ \A w \in Users, r \in RevInputs :
                      Matched(i, w, r) => Matched(i, w, r)'
                /\ \A s \in Sessions :
                      (sess[s].pc = "await" /\ Hit(s)) => Hit(s)']_vars

\* an update sent with the revision read at creation succeeded on a note
\* that was pinned in the meantime or before
C14_Witness ==
    \E s \in Sessions :
        /\ sess[s].pc = "done" /\ sess[s].out = "Ok"
        /\ sess[s].rev = FirstRev
        /\ notes[sess[s].id].isPinned
        /\ notes[sess[s].id].rev = FirstRev + 1

\* a flag was set while an update with the current revision was in flight
C14_InFlightReached ==
    \E s \in Sessions :
        /\ sess[s].pc = "await" /\ Hit(s)
        /\ notes[sess[s].id].isArchived
        /\ notes[sess[s].id].updatedAt > 1

\* ------------------------------------------------------------------------
\* SpecParams: the page and pageSize parameters, for every short text
\* ------------------------------------------------------------------------
Chars == {"0", "1", "2", "5", "-", "+", " ", "a"}

RECURSIVE TextsOfLen(_)
TextsOfLen(n) ==
    IF n = 0 THEN {<<>>}
    ELSE {Append(t, c) : t \in TextsOfLen(n - 1), c \in Chars}

RawInputs ==
    {Missing} \cup {Given(t) : t \in UNION {TextsOfLen(n) : n \in 0..MaxLen}}

ParamsInit ==
    /\ StoreInit
    /\ raw \in RawInputs
    /\ parsed = NotParsed
    /\ allNotes = <<>>
    /\ searchParams = NoRequest
    /\ view = NotRendered
    /\ ClientIdle

\* the page read its page parameter from raw
ParsePage ==
    /\ parsed = NotParsed
    /\ parsed' = [param |-> "page", value |-> NormalizePage(raw)]
    /\ UNCHANGED <<raw, allNotes, searchParams, view>>
    /\ UNCHANGED storeVars
    /\ UNCHANGED callVars
    /\ UNCHANGED clientVars

\* the page read its pageSize parameter from raw
ParsePageSize ==
    /\ parsed = NotParsed
    /\ parsed' = [param |-> "pageSize", value |-> NormalizePageSize(raw)]
    /\ UNCHANGED <<raw, allNotes, searchParams, view>>
    /\ UNCHANGED storeVars
    /\ UNCHANGED callVars
    /\ UNCHANGED clientVars

ParamsNext == ParsePage \/ ParsePageSize

SpecParams == ParamsInit /\ [][ParamsNext]_vars

\* an optional sign followed by digits and nothing else
IsIntegerText(t) ==
    LET body == IF t # <<>> /\ Head(t) \in {"-", "+"} THEN Tail(t) ELSE t
    IN  body # <<>> /\ \A i \in 1..Len(body) : body[i] \in Digits

IntegerOfText(t) ==
    IF Head(t) = "-" THEN 0 - DecimalValue(Tail(t))
    ELSE IF Head(t) = "+" THEN DecimalValue(Tail(t))
    ELSE DecimalValue(t)

Parsed(param) == parsed.param = param

\* C5: for every value of the page parameter the normalized page is an
\* integer >= 1: a positive integer is kept, and every missing, empty,
\* non-numeric or non-positive value gives 1.
C5_PageNormalized ==
    Parsed("page") =>
        /\ ~parsed.value.nan
        /\ parsed.value.v >= 1
        /\ parsed.value.v =
              IF raw.present /\ IsIntegerText(raw.text)
                 /\ IntegerOfText(raw.text) >= 1
              THEN IntegerOfText(raw.text)
              ELSE 1

\* C6: for every value of the pageSize parameter the normalized pageSize is
\* an integer in [5, 100]: missing gives 20, below 5 gives 5, above 100 gives
\* 100, and a value within the range is kept.
C6_PageSizeClamped ==
    Parsed("pageSize") =>
        /\ ~parsed.value.nan
        /\ parsed.value.v >= 5 /\ parsed.value.v <= 100
        /\ ~raw.present => parsed.value.v = 20
        /\ (raw.present /\ IsIntegerText(raw.text)) =>
              parsed.value.v =
                 IF IntegerOfText(raw.text) < 5 THEN 5
                 ELSE IF IntegerOfText(raw.text) > 100 THEN 100
                 ELSE IntegerOfText(raw.text)

\* ------------------------------------------------------------------------
\* SpecList: one render of the dashboard page
\* ------------------------------------------------------------------------
Null == "<null>"

\* the texts and times the notes of the pool carry
PoolTitles == << <<"A", "b">>, <<"b", " ", "a">>, <<"b", "b">> >>
PoolContents == << <<>>, <<"a", "B">> >>
PoolCategories == <<Null, "cat-1", "cat-2">>
PoolTimes == <<9, 8, 7, 8, 2, 9, 5>>

\* note i of the pool; notes 1..3 have the flags, categories and order of
\* time of the three notes of getMockNotes
NoteAt(i) ==
    [id |-> i,
     title |-> PoolTitles[((i \div 2) % 3) + 1],
     content |-> PoolContents[((i - 1) % 2) + 1],
     categoryId |-> PoolCategories[((i - 1) % 3) + 1],
     isPinned |-> (i % 4 = 1),
     isArchived |-> (i % 4 = 0),
     updatedAt |-> PoolTimes[((i - 1) % 7) + 1]]

RECURSIVE NotesOf(_, _)
NotesOf(ids, i) ==
    IF i > MaxPool THEN <<>>
    ELSE (IF i \in ids THEN <<NoteAt(i)>> ELSE <<>>) \o NotesOf(ids, i + 1)

\* the arrays of notes the page may be handed
NoteLists == {NotesOf(ids, 1) : ids \in SUBSET (1..MaxPool)}

QInputs ==
    {Missing, Given(<<"a">>), Given(<<" ", "a">>), Given(<<"A", "b">>),
     Given(<<" ", " ">>)}
CategoryInputs == {Missing, Given(""), Given("all"), Given("cat-1")}
PageInputs == {Missing, Given(<<"2">>), Given(<<"3">>), Given(<<"a">>)}
PageSizeInputs == {Missing, Given(<<"5">>), Given(<<"6">>), Given(<<"a">>)}
ArchivedInputs == {Missing, Given("true"), Given("1")}

Requests ==
    [q : QInputs, category : CategoryInputs, page : PageInputs,
     pageSize : PageSizeInputs, includeArchived : ArchivedInputs]

\* String.prototype.toLowerCase
LowerChar(c) == CASE c = "A" -> "a" [] c = "B" -> "b" [] OTHER -> c
ToLowerCase(t) == [i \in 1..Len(t) |-> LowerChar(t[i])]

\* String.prototype.includes
Includes(t, part) ==
    \E k \in 0..(Len(t) - Len(part)) : SubSeq(t, k + 1, k + Len(part)) = part

\* searchParams.q || ""
SearchQueryOf(sp) == OrElse(sp.q, <<>>)

\* searchParams.category || null
CategoryIdOf(sp) ==
    IF sp.category.present /\ sp.category.text # ""
    THEN sp.category.text
    ELSE Null

\* searchParams.includeArchived === "true"
IncludeArchivedOf(sp) ==
    sp.includeArchived.present /\ sp.includeArchived.text = "true"

\* the search test of the filter callback
SearchMatches(note, searchQuery) ==
    \/ Includes(ToLowerCase(note.title), ToLowerCase(searchQuery))
    \/ Includes(ToLowerCase(note.content), ToLowerCase(searchQuery))

\* the callback of allNotes.filter
KeepNote(note, searchQuery, categoryId, includeArchived) ==
    IF ~includeArchived /\ note.isArchived THEN FALSE
    ELSE IF categoryId # Null /\ note.categoryId # categoryId THEN FALSE
    ELSE IF Len(searchQuery) >= 2 THEN SearchMatches(note, searchQuery)
    ELSE TRUE

FilterNotes(all, searchQuery, categoryId, includeArchived) ==
    SelectSeq(all, LAMBDA n : KeepNote(n, searchQuery, categoryId, includeArchived))

\* a comparator that orders by time alone
CompareByTime(a, b) == b.updatedAt - a.updatedAt

\* the comparator of filteredNotes.sort
CompareNotes(a, b) ==
    IF a.isPinned /\ ~b.isPinned THEN -1
    ELSE IF ~a.isPinned /\ b.isPinned THEN 1
    ELSE b.updatedAt - a.updatedAt

\* Array.prototype.sort is stable: n goes after the last element it does
\* not precede
RECURSIVE InsertNote(_, _)
InsertNote(sorted, n) ==
    IF sorted = <<>> THEN <<n>>
    ELSE IF CompareNotes(sorted[Len(sorted)], n) <= 0 THEN Append(sorted, n)
    ELSE Append(InsertNote(SubSeq(sorted, 1, Len(sorted) - 1), n),
                sorted[Len(sorted)])

RECURSIVE SortNotes(_)
SortNotes(list) ==
    IF list = <<>> THEN <<>>
    ELSE InsertNote(SortNotes(SubSeq(list, 1, Len(list) - 1)), list[Len(list)])

\* a sum that is one too large
PlusOneMore(a, b) == IF a.nan \/ b.nan THEN NaN ELSE Num(a.v + b.v + 1)

\* arithmetic on numbers, NaN when an operand is NaN
Plus(a, b) == IF a.nan \/ b.nan THEN NaN ELSE Num(a.v + b.v)

\* a difference that takes b away twice
MinusTwice(a, b) == IF a.nan \/ b.nan THEN NaN ELSE Num(a.v - b.v - b.v)

Minus(a, b) == IF a.nan \/ b.nan THEN NaN ELSE Num(a.v - b.v)
Times(a, b) == IF a.nan \/ b.nan THEN NaN ELSE Num(a.v * b.v)

\* Math.ceil(total / pageSize) for pageSize > 0
CeilDiv(total, pageSize) ==
    IF pageSize.nan THEN NaN
    ELSE IF total % pageSize.v = 0 THEN Num(total \div pageSize.v)
    ELSE Num((total \div pageSize.v) + 1)

\* a page count without the lower limit of one
PageCountNoFloor(total, pageSize) == CeilDiv(total, pageSize)

\* Math.max(Math.ceil(total / pageSize), 1)
PageCountOf(total, pageSize) == MathMax(CeilDiv(total, pageSize), Num(1))

\* an index argument of slice: NaN counts as 0, and the index is kept
\* within the array
SliceIndex(x, len) ==
    IF x.nan THEN 0
    ELSE IF x.v < 0 THEN (IF len + x.v < 0 THEN 0 ELSE len + x.v)
    ELSE IF x.v > len THEN len
    ELSE x.v

\* a slice that starts over when its start is beyond the array
SliceFromStart(list, from, to) ==
    SubSeq(list,
           IF ~from.nan /\ from.v >= Len(list) THEN 1
           ELSE SliceIndex(from, Len(list)) + 1,
           SliceIndex(to, Len(list)))

\* Array.prototype.slice(from, to)
Slice(list, from, to) ==
    SubSeq(list, SliceIndex(from, Len(list)) + 1, SliceIndex(to, Len(list)))

\* everything NotesPage computes from its parameters and the notes
Render(sp, all) ==
    LET searchQuery == SearchQueryOf(sp)
        categoryId == CategoryIdOf(sp)
        page == NormalizePage(sp.page)
        pageSize == NormalizePageSize(sp.pageSize)
        includeArchived == IncludeArchivedOf(sp)
        filteredNotes ==
            SortNotes(FilterNotes(all, searchQuery, categoryId, includeArchived))
        total == Len(filteredNotes)
        pageCount == PageCountOf(total, pageSize)
        startIndex == Times(Minus(page, Num(1)), pageSize)
        paginatedNotes ==
            Slice(filteredNotes, startIndex, Plus(startIndex, pageSize))
    IN  [rendered |-> TRUE, page |-> page, pageSize |-> pageSize,
         total |-> total, pageCount |-> pageCount, items |-> paginatedNotes,
         pagination |-> (paginatedNotes # <<>> /\ ~pageCount.nan
                         /\ pageCount.v > 1)]

ListInit ==
    /\ StoreInit
    /\ raw = Missing
    /\ parsed = NotParsed
    /\ allNotes \in NoteLists
    /\ searchParams \in Requests
    /\ view = NotRendered
    /\ ClientIdle

\* NotesPage: the server component renders the request
NotesPage ==
    /\ ~view.rendered
    /\ view' = Render(searchParams, allNotes)
    /\ UNCHANGED <<raw, parsed, allNotes, searchParams>>
    /\ UNCHANGED storeVars
    /\ UNCHANGED callVars
    /\ UNCHANGED clientVars

ListNext == NotesPage

SpecList == ListInit /\ [][ListNext]_vars

\* ------------------------------------------------------------------------
\* Properties of the listing
\* ------------------------------------------------------------------------
\* a comes no later than b in the listing order
InOrder(a, b) ==
    /\ a.isPinned \/ ~b.isPinned
    /\ (a.isPinned = b.isPinned) => a.updatedAt >= b.updatedAt

\* the same request on another page
OnPage(p) == Render([searchParams EXCEPT !.page = p], allNotes)

\* the same request without one of its parameters
WithoutQuery == Render([searchParams EXCEPT !.q = Missing], allNotes)
WithoutCategory == Render([searchParams EXCEPT !.category = Missing], allNotes)

\* the notes of allNotes a predicate keeps, counted
CountKept(Keep(_)) ==
    Cardinality({i \in 1..Len(allNotes) : Keep(allNotes[i])})

\* C7: in every listing, for every filter and page, each pinned note
\* precedes each unpinned note whatever their updatedAt, and notes with the
\* same pinned flag are in descending order of updatedAt; the same holds
\* between the notes of a page and the notes of every later page.
C7_PinnedThenRecent ==
    view.rendered =>
        /\ \A i, j \in 1..Len(view.items) :
              i < j => InOrder(view.items[i], view.items[j])
        /\ \A p \in PageInputs :
              LET later == OnPage(p)
              IN  (~later.page.nan /\ ~view.page.nan
                   /\ later.page.v > view.page.v) =>
                      \A i \in 1..Len(view.items), j \in 1..Len(later.items) :
                          InOrder(view.items[i], later.items[j])

\* the sort moved a pinned note in front of a more recent unpinned note that
\* came before it in the array, and ordered two unpinned notes by time
C7_Witness ==
    /\ view.rendered
    /\ \E i, j \in 1..Len(view.items) :
          /\ i < j
          /\ view.items[i].id > view.items[j].id
          /\ view.items[i].isPinned /\ ~view.items[j].isPinned
          /\ view.items[i].updatedAt < view.items[j].updatedAt
    /\ \E i, j \in 1..Len(view.items) :
          /\ i < j
          /\ view.items[i].id > view.items[j].id
          /\ ~view.items[i].isPinned /\ ~view.items[j].isPinned
          /\ view.items[i].updatedAt > view.items[j].updatedAt

\* C8: for every total >= 0 of notes matching the filter and every page size
\* within [MinPageSize, MaxPageSize], pageCount is the least integer >= 1
\* with pageCount * pageSize >= total, so it is 1 when total is 0; total is
\* the number of notes the filter keeps, whatever the page and the page
\* size, and the items are notes the same filter keeps.
C8_PageCount ==
    (view.rendered /\ ~view.pageSize.nan) =>
        LET Keep(n) == KeepNote(n, SearchQueryOf(searchParams),
                                CategoryIdOf(searchParams),
                                IncludeArchivedOf(searchParams))
        IN  /\ view.pageSize.v \in MinPageSize..MaxPageSize
            /\ view.total = CountKept(Keep)
            /\ \A i \in 1..Len(view.items) : Keep(view.items[i])
            /\ \A p \in PageInputs : OnPage(p).total = view.total
            /\ ~view.pageCount.nan
            /\ view.pageCount.v >= 1
            /\ view.total = 0 => view.pageCount.v = 1
            /\ view.total > 0 =>
                  /\ (view.pageCount.v - 1) * view.pageSize.v < view.total
                  /\ view.total <= view.pageCount.v * view.pageSize.v

\* a second page: more notes match than one page holds, and the notes left
\* out by the filter and by the offset are not counted as items
C8_Witness ==
    /\ view.rendered
    /\ ~view.pageCount.nan /\ view.pageCount.v = 2
    /\ view.total > view.pageSize.v
    /\ Len(view.items) < view.total

\* no note matches: one page
C8_EmptyReached ==
    /\ view.rendered
    /\ ~view.pageSize.nan
    /\ allNotes # <<>>
    /\ view.total = 0

\* C9: the listing applies the search predicate only when the query,
\* trimmed of surrounding whitespace, has length >= 2; for every query of
\* trimmed length 0 or 1 the listing is the listing of the request without
\* a query.
C9_ShortQueryDropped ==
    (view.rendered /\ Len(Trim(SearchQueryOf(searchParams))) < 2) =>
        view = WithoutQuery

\* C10: a category parameter that is absent, empty or "all" leaves the
\* listing unfiltered by category; any other value restricts the listing to
\* the notes whose categoryId equals it.
C10_CategoryFilter ==
    view.rendered =>
        IF \/ ~searchParams.category.present
           \/ searchParams.category.text \in {"", "all"}
        THEN view = WithoutCategory
        ELSE LET Keep(n) ==
                    /\ n.categoryId = searchParams.category.text
                    /\ KeepNote(n, SearchQueryOf(searchParams), Null,
                                IncludeArchivedOf(searchParams))
             IN  /\ view.total = CountKept(Keep)
                 /\ \A i \in 1..Len(view.items) : Keep(view.items[i])

\* the filtered and sorted notes of the request
Filtered ==
    SortNotes(FilterNotes(allNotes, SearchQueryOf(searchParams),
                          CategoryIdOf(searchParams),
                          IncludeArchivedOf(searchParams)))

\* the request with no page parameter
FirstPage == Render([searchParams EXCEPT !.page = Missing], allNotes)

C22_ShownReached ==
    /\ view.rendered
    /\ view.pagination
    /\ view.total > view.pageSize.v

\* C28: whenever the dashboard renders the pagination component, its inputs
\* satisfy pageCount > 1 and 1 <= currentPage <= pageCount, for every value
\* of the page and pageSize parameters and every set of notes.
C28_PaginationInputs ==
    (view.rendered /\ view.pagination) =>
        /\ ~view.pageCount.nan /\ ~view.page.nan
        /\ view.pageCount.v > 1
        /\ 1 <= view.page.v
        /\ view.page.v <= view.pageCount.v

\* the pagination component is rendered on the last page
C28_Witness ==
    /\ view.rendered
    /\ view.pagination
    /\ view.page = Num(2)
    /\ view.pageCount = Num(2)

\* no pagination component for a page parameter that is not a number, or a
\* page beyond the result, although there are two pages
C28_HiddenReached ==
    /\ view.rendered
    /\ ~view.pagination
    /\ view.page.nan
    /\ view.pageCount = Num(2)

\* the items of page p of the request
PageItems(p) == OnPage(Given(NumberToString(p))).items

\* the items of the pages p..last, one page after the other
RECURSIVE PagesFrom(_, _)
PagesFrom(p, last) ==
    IF p > last THEN <<>> ELSE PageItems(p) \o PagesFrom(p + 1, last)

\* C30: for a fixed set of notes, filter and normalized pageSize, the pages
\* 1..pageCount partition the filtered, sorted result: concatenating them in
\* order gives the whole result with every matching note exactly once, every
\* page but the last holds exactly pageSize items, and the last holds
\* between 1 and pageSize items when total > 0.
C30_PagesPartition ==
    (view.rendered /\ ~view.pageSize.nan) =>
        LET last == view.pageCount.v
        IN  /\ PagesFrom(1, last) = Filtered
            /\ \A i, j \in 1..Len(Filtered) :
                  i # j => Filtered[i].id # Filtered[j].id
            /\ \A i \in 1..Len(allNotes) :
                  KeepNote(allNotes[i], SearchQueryOf(searchParams),
                           CategoryIdOf(searchParams),
                           IncludeArchivedOf(searchParams))
                  => \E j \in 1..Len(Filtered) : Filtered[j] = allNotes[i]
            /\ \A p \in 1..(last - 1) : Len(PageItems(p)) = view.pageSize.v
            /\ view.total > 0 =>
                  /\ Len(PageItems(last)) >= 1
                  /\ Len(PageItems(last)) <= view.pageSize.v

\* a result of two pages: a full first page and a shorter last page
C30_Witness ==
    /\ view.rendered
    /\ view.pageCount = Num(2)
    /\ ~view.pageSize.nan
    /\ Len(PageItems(1)) = view.pageSize.v
    /\ Len(PageItems(2)) >= 1
    /\ Len(PageItems(2)) < view.pageSize.v

\* ------------------------------------------------------------------------
\* listNotesForUser: the query of the dashboard over the notes table
\* ------------------------------------------------------------------------
\* an optional parameter: left out, or given with a value
Absent == [present |-> FALSE, value |-> NaN]
Present(v) == [present |-> TRUE, value |-> v]

\* param ?? fallback
Nullish(param, fallback) == IF param.present THEN param.value ELSE fallback

\* the rows of a table, each with its id
RowsOf(table) ==
    [i \in 1..Len(table) |->
        [id |-> i, ownerId |-> table[i].userId, title |-> table[i].title,
         content |-> table[i].content, categoryId |-> table[i].categoryId,
         isPinned |-> table[i].isPinned, isArchived |-> table[i].isArchived,
         updatedAt |-> table[i].updatedAt, deletedAt |-> table[i].deletedAt]]

\* ilike(column, `%${q}%`)
ILike(text, q) == Includes(ToLowerCase(text), ToLowerCase(q))

\* params.categoryId ? ... : undefined
CategoryGiven(categoryId) == categoryId \notin {Null, Undefined, ""}

\* a where clause without eq(notes.ownerId, ownerId)
WhereListAnyOwner(row, ownerId, q, categoryId, includeArchived) ==
    /\ row.deletedAt = NullTime
    /\ includeArchived \/ ~row.isArchived
    /\ CategoryGiven(categoryId) => row.categoryId = categoryId
    /\ Len(q) >= 2 => (ILike(row.title, q) \/ ILike(row.content, q))

\* a where clause without isNull(notes.deletedAt)
WhereListWithDeleted(row, ownerId, q, categoryId, includeArchived) ==
    /\ row.ownerId = ownerId
    /\ includeArchived \/ ~row.isArchived
    /\ CategoryGiven(categoryId) => row.categoryId = categoryId
    /\ Len(q) >= 2 => (ILike(row.title, q) \/ ILike(row.content, q))

\* the where clause of listNotesForUser
WhereList(row, ownerId, q, categoryId, includeArchived) ==
    /\ row.ownerId = ownerId
    /\ row.deletedAt = NullTime
    /\ includeArchived \/ ~row.isArchived
    /\ CategoryGiven(categoryId) => row.categoryId = categoryId
    /\ Len(q) >= 2 => (ILike(row.title, q) \/ ILike(row.content, q))

\* desc(notes.isPinned), desc(notes.updatedAt): a comes before b
OrderedBefore(a, b) ==
    \/ a.isPinned /\ ~b.isPinned
    \/ a.isPinned = b.isPinned /\ a.updatedAt > b.updatedAt

RECURSIVE InsertRow(_, _)
InsertRow(sorted, r) ==
    IF sorted = <<>> THEN <<r>>
    ELSE IF OrderedBefore(r, sorted[Len(sorted)])
    THEN Append(InsertRow(SubSeq(sorted, 1, Len(sorted) - 1), r),
                sorted[Len(sorted)])
    ELSE Append(sorted, r)

RECURSIVE OrderBy(_)
OrderBy(rows) ==
    IF rows = <<>> THEN <<>>
    ELSE InsertRow(OrderBy(SubSeq(rows, 1, Len(rows) - 1)), rows[Len(rows)])

\* .limit(limit).offset(offset)
LimitOffset(rows, limit, offset) ==
    SubSeq(rows, offset + 1,
           IF offset + limit < Len(rows) THEN offset + limit ELSE Len(rows))

\* the columns of the select
Selected(row) ==
    [id |-> row.id, title |-> row.title, content |-> row.content,
     categoryId |-> row.categoryId, isPinned |-> row.isPinned,
     isArchived |-> row.isArchived, updatedAt |-> row.updatedAt]

\* listNotesForUser(ownerId, params) over a notes table
listNotesForUser(table, ownerId, params) ==
    LET pageSize ==
            MathMin(MathMax(Nullish(params.pageSize, Num(20)), Num(MinPageSize)),
                    Num(MaxPageSize)).v
        page == MathMax(Nullish(params.page, Num(1)), Num(1)).v
        q == Trim(IF params.q.present THEN params.q.text ELSE <<>>)
        includeArchived == Nullish(params.includeArchived, FALSE)
        matching ==
            SelectSeq(RowsOf(table),
                      LAMBDA r : WhereList(r, ownerId, q, params.categoryId,
                                           includeArchived))
        found == LimitOffset(OrderBy(matching), pageSize, (page - 1) * pageSize)
        total == Len(matching)
    IN  [items |-> [i \in 1..Len(found) |-> Selected(found[i])],
         total |-> total, page |-> page, pageSize |-> pageSize,
         pageCount |-> PageCountOf(total, Num(pageSize)).v]

\* ------------------------------------------------------------------------
\* SpecFlags: the flag and delete actions on a notes table, with outcomes
\* ------------------------------------------------------------------------
\* row i of a table of n rows: created at time i and, when pinned, archived
\* or soft-deleted since, last written at time n + i
TableRow(i, n, r) ==
    LET touched == r.isPinned \/ r.isArchived \/ r.deleted
    IN  [userId |-> r.userId,
         title |-> PoolTitles[(i % 3) + 1],
         content |-> PoolContents[(i % 2) + 1],
         rev |-> FirstRev,
         categoryId |-> PoolCategories[((i - 1) % 3) + 1],
         isPinned |-> r.isPinned,
         isArchived |-> r.isArchived,
         updatedAt |-> IF touched THEN n + i ELSE i,
         deletedAt |-> IF r.deleted THEN n + i ELSE NullTime]

\* a row as it is created, or pinned, archived or soft-deleted since
RowChoices ==
    {c \in [userId : Users, isPinned : BOOLEAN, isArchived : BOOLEAN,
            deleted : BOOLEAN] :
        ~(c.isPinned /\ c.isArchived) /\ ~(c.isPinned /\ c.deleted)}

\* the notes tables of up to MaxRows rows; the two users are alike, so the
\* first note is taken to be u1's
NoteTables ==
    UNION {{[i \in 1..n |-> TableRow(i, n, c[i])] :
               c \in {d \in [1..n -> RowChoices] : n > 0 => d[1].userId = "u1"}}
           : n \in 0..MaxRows}

\* the ids a call may name: every row, and one id that was never inserted
CallIds == 1..(MaxRows + 1)
\* the calls made: by each user on each id, and one without a signed-in user
Calls == [userId : Users, id : CallIds] \cup {[userId |-> NoUser, id |-> 1]}

FlagsInit ==
    /\ notes \in NoteTables
    /\ now = (2 * Len(notes)) + 1
    /\ sess = [s \in Sessions |-> IdleSession]
    /\ updates = [i \in NoteIds |-> 0]
    /\ cats = <<>>
    /\ reply = NoReply
    /\ pending = NoPending
    /\ PageIdle
    /\ ClientIdle

\* the clock has not yet passed the last call of the behaviour
CallsLeft == now < (2 * Len(notes)) + 1 + MaxCalls

Replied(op, out, rows) ==
    [op |-> op, out |-> out, rows |-> rows, call |-> NoCall]

\* an update with the where clause and(eq(id), eq(ownerId), isNull(deletedAt))
Owned(userId, id) == id \in DOMAIN notes /\ WhereOwned(notes[id], userId)

\* togglePinNote(noteId, pin): requireUser, the update, return result
togglePinNoteCall(userId, id, pin) ==
    /\ CallsLeft
    /\ IF userId = NoUser
       THEN /\ reply' = Replied("togglePinNote", "Unauthorized", 0)
            /\ UNCHANGED <<notes, now>>
       ELSE IF Owned(userId, id)
       THEN /\ notes' = [notes EXCEPT ![id].isPinned = pin,
                                      ![id].updatedAt = now]
            /\ now' = now + 1
            /\ reply' = Replied("togglePinNote", "Ok", 1)
       ELSE /\ reply' = Replied("togglePinNote", "Ok", 0)
            /\ UNCHANGED <<notes, now>>
    /\ UNCHANGED <<sess, updates, cats, pending>>
    /\ UNCHANGED pageVars
    /\ UNCHANGED clientVars

\* toggleArchiveNote(noteId, archive): requireUser, the update, return result
toggleArchiveNoteCall(userId, id, archive) ==
    /\ CallsLeft
    /\ IF userId = NoUser
       THEN /\ reply' = Replied("toggleArchiveNote", "Unauthorized", 0)
            /\ UNCHANGED <<notes, now>>
       ELSE IF Owned(userId, id)
       THEN /\ notes' = [notes EXCEPT ![id].isArchived = archive,
                                      ![id].updatedAt = now]
            /\ now' = now + 1
            /\ reply' = Replied("toggleArchiveNote", "Ok", 1)
       ELSE /\ reply' = Replied("toggleArchiveNote", "Ok", 0)
            /\ UNCHANGED <<notes, now>>
    /\ UNCHANGED <<sess, updates, cats, pending>>
    /\ UNCHANGED pageVars
    /\ UNCHANGED clientVars

\* softDeleteNote(noteId): requireUser, the update, return result
softDeleteNote(userId, id) ==
    /\ CallsLeft
    /\ IF userId = NoUser
       THEN /\ reply' = Replied("softDeleteNote", "Unauthorized", 0)
            /\ UNCHANGED <<notes, now>>
       ELSE IF Owned(userId, id)
       THEN /\ notes' = [notes EXCEPT ![id].deletedAt = now,
                                      ![id].updatedAt = now]
            /\ now' = now + 1
            /\ reply' = Replied("softDeleteNote", "Ok", 1)
       ELSE /\ reply' = Replied("softDeleteNote", "Ok", 0)
            /\ UNCHANGED <<notes, now>>
    /\ UNCHANGED <<sess, updates, cats, pending>>
    /\ UNCHANGED pageVars
    /\ UNCHANGED clientVars

\* deleteNote({id}) of the editor: auth, the update ... returning, and the
\* throw when no row came back
deleteNoteCall(userId, id) ==
    /\ CallsLeft
    /\ IF userId = NoUser
       THEN /\ reply' = Replied("deleteNote", "Unauthorized", 0)
            /\ UNCHANGED <<notes, now>>
       ELSE IF Owned(userId, id)
       THEN /\ notes' = [notes EXCEPT ![id].deletedAt = now,
                                      ![id].updatedAt = now]
            /\ now' = now + 1
            /\ reply' = Replied("deleteNote", "Ok", 1)
       ELSE /\ reply' = Replied("deleteNote", "NotFound", 0)
            /\ UNCHANGED <<notes, now>>
    /\ UNCHANGED <<sess, updates, cats, pending>>
    /\ UNCHANGED pageVars
    /\ UNCHANGED clientVars

FlagsNext ==
    \/ \E c \in Calls, b \in BOOLEAN : togglePinNoteCall(c.userId, c.id, b)
    \/ \E c \in Calls, b \in BOOLEAN : toggleArchiveNoteCall(c.userId, c.id, b)
    \/ \E c \in Calls : softDeleteNote(c.userId, c.id)
    \/ \E c \in Calls : deleteNoteCall(c.userId, c.id)

SpecFlags == FlagsInit /\ [][FlagsNext]_vars

\* ------------------------------------------------------------------------
\* Properties of the listing over the notes table (SpecFlags)
\* ------------------------------------------------------------------------
\* the parameters the page hands to the query for a request: the texts of
\* includeArchived are turned into a boolean as the page does
ListParams(q, categoryId, page, pageSize, archived) ==
    [q |-> q, categoryId |-> categoryId, page |-> page, pageSize |-> pageSize,
     includeArchived |-> Present(IncludeArchivedOf([includeArchived |-> archived]))]

\* requests with and without a query, a category, a page and a page size,
\* under every includeArchived text
ListRequests ==
    {ListParams(Missing, Null, Absent, Absent, a) : a \in ArchivedInputs}
    \cup {ListParams(Given(<<"b", "b">>), Null, Absent, Absent, Given("true")),
          ListParams(Missing, "cat-1", Absent, Absent, Given("1")),
          ListParams(Missing, Null, Present(Num(2)), Present(Num(1)), Given("true"))}

\* the includeArchived text of the request is exactly "true"
ArchivedAsked(params) == params.includeArchived = Present(TRUE)

\* C11: after any sequence of operations, every note a listing returns has
\* deletedAt = null, and has isArchived = false unless the includeArchived
\* parameter of the request is exactly "true"; no parameter value makes a
\* soft-deleted note appear.
C11_ListedLive ==
    \A u \in Users, params \in ListRequests :
        LET res == listNotesForUser(notes, u, params)
        IN  \A k \in 1..Len(res.items) :
              /\ notes[res.items[k].id].deletedAt = NullTime
              /\ res.items[k].isArchived => ArchivedAsked(params)

\* a soft delete has just succeeded; the caller has a soft-deleted note and
\* a live archived one, which is listed with includeArchived=true only
C11_Witness ==
    /\ reply = Replied("softDeleteNote", "Ok", 1)
    /\ \E i, j \in DOMAIN notes :
          /\ notes[i].userId = "u1" /\ notes[i].deletedAt # NullTime
          /\ notes[j].userId = "u1" /\ notes[j].deletedAt = NullTime
          /\ notes[j].isArchived
          /\ LET with == listNotesForUser(notes, "u1",
                           ListParams(Missing, Null, Absent, Absent, Given("true")))
                 without == listNotesForUser(notes, "u1",
                           ListParams(Missing, Null, Absent, Absent, Given("1")))
             IN  /\ \E k \in 1..Len(with.items) : with.items[k].id = j
                 /\ \A k \in 1..Len(with.items) : with.items[k].id # i
                 /\ \A k \in 1..Len(without.items) : without.items[k].id # j

\* the table with every note of the other owners live, pinned, unarchived
\* and written last
OthersShown(table, u) ==
    [i \in 1..Len(table) |->
        IF table[i].userId = u THEN table[i]
        ELSE [table[i] EXCEPT !.deletedAt = NullTime, !.isArchived = FALSE,
                              !.isPinned = TRUE, !.updatedAt = now + i]]

\* the table with every note of the other owners soft-deleted
OthersDeleted(table, u) ==
    [i \in 1..Len(table) |->
        IF table[i].userId = u THEN table[i]
        ELSE [table[i] EXCEPT !.deletedAt = now, !.updatedAt = now]]

Absentee(id) == id \notin DOMAIN notes
SoftDeleted(id) == id \in DOMAIN notes /\ notes[id].deletedAt # NullTime
OthersNote(userId, id) ==
    id \in DOMAIN notes /\ notes[id].deletedAt = NullTime
    /\ notes[id].userId # userId

\* a step of togglePinNote or toggleArchiveNote for the call c
FlagStep(c) ==
    \E b \in BOOLEAN :
        \/ togglePinNoteCall(c.userId, c.id, b)
        \/ toggleArchiveNoteCall(c.userId, c.id, b)

\* C13: togglePin and toggleArchive called by a signed-in user with a noteId
\* that does not exist, is soft-deleted or belongs to another owner fail
\* with NotFound in all three cases, and change no note.
C13_FlagsNotFound ==
    [][\A c \in Calls :
          (/\ FlagStep(c)
           /\ c.userId # NoUser
           /\ Absentee(c.id) \/ SoftDeleted(c.id) \/ OthersNote(c.userId, c.id))
          => (reply'.out = "NotFound" /\ notes' = notes)]_vars

\* a step of either soft delete for the call c
DeleteStep(c) == softDeleteNote(c.userId, c.id) \/ deleteNoteCall(c.userId, c.id)

\* C15: soft delete is not idempotent: the call of the owner on a live note
\* succeeds and sets deletedAt, and every later soft delete of the same
\* note fails with NotFound and leaves the note unchanged.
C15_DeleteOnce ==
    [][\A c \in Calls :
          (DeleteStep(c) /\ c.userId # NoUser /\ c.id \in DOMAIN notes
           /\ notes[c.id].userId = c.userId) =>
              IF notes[c.id].deletedAt = NullTime
              THEN /\ reply'.out = "Ok"
                   /\ notes'[c.id].deletedAt # NullTime
              ELSE /\ reply'.out = "NotFound"
                   /\ notes' = notes]_vars

\* the second delete of the editor's deleteNote is refused
C15_DeleteNoteRefusedReached ==
    /\ reply = Replied("deleteNote", "NotFound", 0)
    /\ \E i \in DOMAIN notes : notes[i].deletedAt # NullTime

\* ------------------------------------------------------------------------
\* SpecCats: the categories table, createCategory and renameCategory
\* ------------------------------------------------------------------------
\* the ids the table hands out, in order; an id is never handed out twice
CategoryIds == <<"cat-1", "cat-2", "cat-3", "cat-4", "cat-5">>
CatIndex(id) == CHOOSE i \in 1..Len(CategoryIds) : CategoryIds[i] = id

\* max(64, 'Max 64 characters')
MaxNameLength == 64

\* z.string().trim().min(1).max(64): the parsed name, when there is one
NameValid(name) == Len(Trim(name)) >= 1 /\ Len(Trim(name)) <= MaxNameLength

\* color: text('color').notNull().default('gray')
DefaultColor == "gray"

CategoryRow(userId, name) ==
    [userId |-> userId, name |-> name, color |-> DefaultColor, live |-> TRUE]

\* the category with the id is in the table
CategoryExists(id) ==
    \E i \in 1..Len(cats) : CategoryIds[i] = id /\ cats[i].live

\* the category with the id is in the table and is the user's
CategoryOwned(userId, id) ==
    \E i \in 1..Len(cats) :
        CategoryIds[i] = id /\ cats[i].live /\ cats[i].userId = userId

\* a table with no unique index on the categories
UserNameFreeAlways(userId, name, except) == TRUE

\* uniqueIndex('categories_user_name_unique').on(t.userId, t.name): no row
\* other than the row except holds the pair
UserNameFree(userId, name, except) ==
    \A i \in 1..Len(cats) :
        (cats[i].live /\ i # except) =>
            ~(cats[i].userId = userId /\ cats[i].name = name)

\* createCategory(ownerId, name): auth, parse, insert under the unique index
createCategory(userId, name) ==
    /\ IF userId = NoUser
       THEN /\ reply' = Replied("createCategory", "Unauthorized", 0)
            /\ UNCHANGED cats
       ELSE IF ~NameValid(name)
       THEN /\ reply' = Replied("createCategory", "ValidationError", 0)
            /\ UNCHANGED cats
       ELSE IF ~UserNameFree(userId, Trim(name), 0)
       THEN /\ reply' = Replied("createCategory", "DuplicateName", 0)
            /\ UNCHANGED cats
       ELSE /\ Len(cats) < MaxCats
            /\ cats' = Append(cats, CategoryRow(userId, Trim(name)))
            /\ reply' = Replied("createCategory", "Ok", 1)
    /\ UNCHANGED <<pending>>
    /\ UNCHANGED storeVars
    /\ UNCHANGED pageVars
    /\ UNCHANGED clientVars

\* renameCategory(ownerId, categoryId, newName): auth, parse, the row of the
\* caller, update under the unique index
renameCategory(userId, id, name) ==
    /\ IF userId = NoUser
       THEN /\ reply' = Replied("renameCategory", "Unauthorized", 0)
            /\ UNCHANGED cats
       ELSE IF ~NameValid(name)
       THEN /\ reply' = Replied("renameCategory", "ValidationError", 0)
            /\ UNCHANGED cats
       ELSE IF ~CategoryOwned(userId, id)
       THEN /\ reply' = Replied("renameCategory", "NotFound", 0)
            /\ UNCHANGED cats
       ELSE IF ~UserNameFree(userId, Trim(name), CatIndex(id))
       THEN /\ reply' = Replied("renameCategory", "DuplicateName", 0)
            /\ UNCHANGED cats
       ELSE /\ cats' = [cats EXCEPT ![CatIndex(id)].name = Trim(name)]
            /\ reply' = Replied("renameCategory", "Ok", 1)
    /\ UNCHANGED <<pending>>
    /\ UNCHANGED storeVars
    /\ UNCHANGED pageVars
    /\ UNCHANGED clientVars

\* the names typed: two names, one of them also with a space in front, and
\* a blank one
NameInputs == {<<"w">>, <<" ", "w">>, <<"h">>, <<" ">>}

\* the category calls made: by each user, and one without a signed-in user
CategoryCalls ==
    [userId : Users, id : {CategoryIds[i] : i \in 1..(MaxCats + 1)},
     name : NameInputs]
    \cup {[userId |-> NoUser, id |-> CategoryIds[1], name |-> <<"w">>]}

CatsInit == StoreInit /\ PageIdle /\ ClientIdle

CatsNext ==
    \/ \E c \in CategoryCalls : createCategory(c.userId, c.name)
    \/ \E c \in CategoryCalls : renameCategory(c.userId, c.id, c.name)

SpecCats == CatsInit /\ [][CatsNext]_vars

\* no two categories of a table have the same owner and the same name
NamesUnique(table) ==
    \A i, j \in 1..Len(table) :
        (i # j /\ table[i].live /\ table[j].live
         /\ table[i].userId = table[j].userId) => table[i].name # table[j].name

\* another category of the user than the one with the id holds the name
NameTaken(userId, name, id) ==
    \E i \in 1..Len(cats) :
        /\ CategoryIds[i] # id
        /\ cats[i].live /\ cats[i].userId = userId /\ cats[i].name = name

\* C16: after any sequence and interleaving of createCategory and
\* renameCategory calls no two categories of the same owner have the same
\* name: a create or rename that would produce a duplicate (owner, name)
\* pair fails with DuplicateName and changes nothing, and the same name
\* under another owner succeeds.
C16_UniqueNames ==
    [][/\ NamesUnique(cats) /\ NamesUnique(cats')
       /\ \A c \in CategoryCalls :
            (c.userId # NoUser /\ NameValid(c.name)) =>
                /\ createCategory(c.userId, c.name) =>
                      IF NameTaken(c.userId, Trim(c.name), "")
                      THEN reply'.out = "DuplicateName" /\ cats' = cats
                      ELSE reply'.out = "Ok" /\ Len(cats') = Len(cats) + 1
                /\ (renameCategory(c.userId, c.id, c.name)
                    /\ CategoryOwned(c.userId, c.id)) =>
                      IF NameTaken(c.userId, Trim(c.name), c.id)
                      THEN reply'.out = "DuplicateName" /\ cats' = cats
                      ELSE /\ reply'.out = "Ok"
                           /\ cats'[CatIndex(c.id)].name = Trim(c.name)]_vars

\* a duplicate was refused while the other owner holds a category of the
\* same name
C16_Witness ==
    /\ reply.out = "DuplicateName"
    /\ \E i, j \in 1..Len(cats) :
          /\ cats[i].userId = "u1" /\ cats[j].userId = "u2"
          /\ cats[i].name = cats[j].name

\* ------------------------------------------------------------------------
\* SpecRefs: notes that reference categories, and deleteCategory
\* ------------------------------------------------------------------------
\* category i of the table the specification starts from: two categories
\* "w" and "h" of u1, then those of u2
CategoryAt(i) ==
    CategoryRow(IF ((i - 1) \div 2) % 2 = 0 THEN "u1" ELSE "u2",
                IF i % 2 = 1 THEN <<"w">> ELSE <<"h">>)

\* no check of the reference when a note is written
ForeignKeyNone(categoryId) == TRUE

\* uuid('category_id').references(() => categories.id): the reference of a
\* row that is written is null or names a category of the table
ForeignKeyHolds(categoryId) == categoryId = Null \/ CategoryExists(categoryId)

\* { onDelete: 'set null' }: the notes after the category row is deleted
OnDeleteSetNull(table, id) ==
    [i \in 1..Len(table) |->
        IF table[i].categoryId = id
        THEN [table[i] EXCEPT !.categoryId = Null]
        ELSE table[i]]

\* the notes of the user that reference the category
Dependents(userId, id) ==
    {i \in 1..Len(notes) : notes[i].userId = userId /\ notes[i].categoryId = id}

\* a reconciler that rewrites every note of the user
ReconciledEveryNote(userId, id, target) ==
    [i \in 1..Len(notes) |->
        IF notes[i].userId = userId
        THEN [notes[i] EXCEPT !.categoryId = target]
        ELSE notes[i]]

\* the Reconciler: the notes with every dependent note set to target
Reconciled(userId, id, target) ==
    [i \in 1..Len(notes) |->
        IF i \in Dependents(userId, id)
        THEN [notes[i] EXCEPT !.categoryId = target]
        ELSE notes[i]]

\* the resolutions of deleteCategorySchema: neither, clear, or reassignTo
NoResolution == [clear |-> FALSE, reassignTo |-> Null]
Clear == [clear |-> TRUE, reassignTo |-> Null]
ReassignTo(target) == [clear |-> FALSE, reassignTo |-> target]

\* a delete that is never blocked
InUseNever(userId, id, resolution) == FALSE

\* the delete is blocked: notes still reference the category and the call
\* gives neither reassignTo nor clear
InUse(userId, id, resolution) ==
    Dependents(userId, id) # {} /\ resolution = NoResolution

\* a target that may be the category being deleted
TargetValidOrSelf(userId, id, target) == CategoryOwned(userId, target)

\* the target of a reassignment is a category of the caller other than the
\* one being deleted
TargetValid(userId, id, target) ==
    CategoryOwned(userId, target) /\ target # id

\* createNote(ownerId, {categoryId?}) up to its insert: auth, and the check
\* that the category is the caller's
createNoteCheck(userId, categoryId) ==
    /\ ~pending.active
    /\ Len(notes) < MaxRows
    /\ IF userId = NoUser
       THEN /\ reply' = Replied("createNote", "Unauthorized", 0)
            /\ UNCHANGED pending
       ELSE IF categoryId # Null /\ ~CategoryOwned(userId, categoryId)
       THEN /\ reply' = Replied("createNote", "InvalidCategory", 0)
            /\ UNCHANGED pending
       ELSE /\ pending' = [active |-> TRUE, userId |-> userId, id |-> 0,
                           categoryId |-> categoryId]
            /\ UNCHANGED reply
    /\ UNCHANGED <<cats>>
    /\ UNCHANGED storeVars
    /\ UNCHANGED pageVars
    /\ UNCHANGED clientVars

\* createNote from its insert on: the row is written unless the foreign key
\* refuses it
createNoteInsert ==
    /\ pending.active
    /\ pending.id = 0
    /\ IF ForeignKeyHolds(pending.categoryId)
       THEN /\ notes' = Append(notes,
                  [NoteRow(pending.userId, DefaultTitle, DefaultContent)
                      EXCEPT !.categoryId = pending.categoryId])
            /\ reply' = Replied("createNote", "Ok", 1)
       ELSE /\ reply' = Replied("createNote", "Failure", 0)
            /\ UNCHANGED notes
    /\ pending' = NoPending
    /\ UNCHANGED <<cats, now, sess, updates>>
    /\ UNCHANGED pageVars
    /\ UNCHANGED clientVars

\* assignNoteCategory(ownerId, noteId, categoryId | null)
assignNoteCategory(userId, id, categoryId) ==
    /\ ~pending.active
    /\ IF userId = NoUser
       THEN /\ reply' = Replied("assignNoteCategory", "Unauthorized", 0)
            /\ UNCHANGED notes
       ELSE IF ~Owned(userId, id)
       THEN /\ reply' = Replied("assignNoteCategory", "NotFound", 0)
            /\ UNCHANGED notes
       ELSE IF categoryId # Null /\ ~CategoryOwned(userId, categoryId)
       THEN /\ reply' = Replied("assignNoteCategory", "InvalidCategory", 0)
            /\ UNCHANGED notes
       ELSE /\ notes' = [notes EXCEPT ![id].categoryId = categoryId]
            /\ reply' = Replied("assignNoteCategory", "Ok", 1)
    /\ UNCHANGED <<cats, pending, now, sess, updates>>
    /\ UNCHANGED pageVars
    /\ UNCHANGED clientVars

\* a deleteCategory call, and the reply to it
Call(userId, id, resolution) ==
    [userId |-> userId, id |-> id, resolution |-> resolution]
RepliedTo(call, out, rows) ==
    [op |-> "deleteCategory", out |-> out, rows |-> rows, call |-> call]

\* deleteCategory(ownerId, categoryId, resolution): with no dependent note
\* the row is deleted whatever the resolution; with dependent notes and no
\* resolution the call is refused; otherwise the Reconciler and the
\* deletion of the row run as one unit
deleteCategory(userId, id, resolution) ==
    /\ IF userId = NoUser
       THEN /\ reply' = RepliedTo(Call(userId, id, resolution),
                                  "Unauthorized", 0)
            /\ UNCHANGED <<cats, notes>>
       ELSE IF ~CategoryOwned(userId, id)
       THEN /\ reply' = RepliedTo(Call(userId, id, resolution),
                                  "NotFound", 0)
            /\ UNCHANGED <<cats, notes>>
       ELSE IF Dependents(userId, id) = {}
       THEN /\ reply' = RepliedTo(Call(userId, id, resolution), "Ok", 0)
            /\ cats' = [cats EXCEPT ![CatIndex(id)].live = FALSE]
            /\ notes' = OnDeleteSetNull(notes, id)
       ELSE IF InUse(userId, id, resolution)
       THEN /\ reply' = RepliedTo(Call(userId, id, resolution),
                                  "CategoryInUse", 0)
            /\ UNCHANGED <<cats, notes>>
       ELSE IF resolution.reassignTo # Null
               /\ ~TargetValid(userId, id, resolution.reassignTo)
       THEN /\ reply' = RepliedTo(Call(userId, id, resolution),
                                  "InvalidCategory", 0)
            /\ UNCHANGED <<cats, notes>>
       ELSE /\ reply' = RepliedTo(Call(userId, id, resolution), "Ok",
                                  Cardinality(Dependents(userId, id)))
            /\ cats' = [cats EXCEPT ![CatIndex(id)].live = FALSE]
            /\ notes' = OnDeleteSetNull(
                   Reconciled(userId, id, resolution.reassignTo), id)
    /\ UNCHANGED <<pending, now, sess, updates>>
    /\ UNCHANGED pageVars
    /\ UNCHANGED clientVars

\* the ids a call may name: every category of the table and one more
CategoryRefs == {CategoryIds[i] : i \in 1..(MaxCats + 1)}
Resolutions == {NoResolution, Clear} \cup {ReassignTo(x) : x \in CategoryRefs}

\* the deleteCategory calls: every resolution on a category by the user it
\* was created for, and a call with no resolution by either user on every
\* id
DeleteCalls ==
    {Call(CategoryAt(i).userId, CategoryIds[i], r) :
        i \in 1..MaxCats, r \in Resolutions}
    \cup {Call(u, c, NoResolution) : u \in Users, c \in CategoryRefs}

RefsInit ==
    /\ cats = [i \in 1..MaxCats |-> CategoryAt(i)]
    /\ notes = <<>>
    /\ now = 1
    /\ sess = [s \in Sessions |-> IdleSession]
    /\ updates = [i \in NoteIds |-> 0]
    /\ reply = NoReply
    /\ pending = NoPending
    /\ PageIdle
    /\ ClientIdle

RefsNext ==
    \/ \E u \in Users, c \in CategoryRefs \cup {Null} : createNoteCheck(u, c)
    \/ createNoteInsert
    \/ \E u \in Users, i \in 1..MaxRows, c \in CategoryRefs \cup {Null} :
          assignNoteCategory(u, i, c)
    \/ \E c \in DeleteCalls : deleteCategory(c.userId, c.id, c.resolution)

SpecRefs == RefsInit /\ [][RefsNext]_vars

\* ------------------------------------------------------------------------
\* SpecRace: the writes of a note reference split where the caller waits
\* for the store, so that a deleteCategory call can run in between
\* ------------------------------------------------------------------------
\* assignNoteCategory(ownerId, noteId, categoryId | null) up to its update:
\* auth, the note is the caller's, and the category is the caller's
assignNoteCategoryCheck(userId, id, categoryId) ==
    /\ ~pending.active
    /\ IF userId = NoUser
       THEN /\ reply' = Replied("assignNoteCategory", "Unauthorized", 0)
            /\ UNCHANGED pending
       ELSE IF ~Owned(userId, id)
       THEN /\ reply' = Replied("assignNoteCategory", "NotFound", 0)
            /\ UNCHANGED pending
       ELSE IF categoryId # Null /\ ~CategoryOwned(userId, categoryId)
       THEN /\ reply' = Replied("assignNoteCategory", "InvalidCategory", 0)
            /\ UNCHANGED pending
       ELSE /\ pending' = [active |-> TRUE, userId |-> userId, id |-> id,
                           categoryId |-> categoryId]
            /\ UNCHANGED reply
    /\ UNCHANGED <<cats>>
    /\ UNCHANGED storeVars
    /\ UNCHANGED pageVars
    /\ UNCHANGED clientVars

\* assignNoteCategory from its update on: the row is written unless the
\* foreign key refuses it
assignNoteCategoryUpdate ==
    /\ pending.active
    /\ pending.id # 0
    /\ IF ~Owned(pending.userId, pending.id)
       THEN /\ reply' = Replied("assignNoteCategory", "NotFound", 0)
            /\ UNCHANGED notes
       ELSE IF ForeignKeyHolds(pending.categoryId)
       THEN /\ notes' = [notes EXCEPT
                            ![pending.id].categoryId = pending.categoryId]
            /\ reply' = Replied("assignNoteCategory", "Ok", 1)
       ELSE /\ reply' = Replied("assignNoteCategory", "Failure", 0)
            /\ UNCHANGED notes
    /\ pending' = NoPending
    /\ UNCHANGED <<cats, now, sess, updates>>
    /\ UNCHANGED pageVars
    /\ UNCHANGED clientVars

\* the deleteCategory calls of the owners on their categories: no
\* resolution, clear, and reassignment to the next category of the table
RaceCalls ==
    UNION {{Call(CategoryAt(i).userId, CategoryIds[i], r) :
               r \in {NoResolution, Clear,
                      ReassignTo(CategoryIds[(i % MaxCats) + 1])}} :
           i \in 1..MaxCats}

RaceNext ==
    \/ \E u \in Users, c \in CategoryRefs \cup {Null} : createNoteCheck(u, c)
    \/ createNoteInsert
    \/ \E u \in Users, i \in 1..MaxRows, c \in CategoryRefs \cup {Null} :
          assignNoteCategoryCheck(u, i, c)
    \/ assignNoteCategoryUpdate
    \/ \E c \in RaceCalls : deleteCategory(c.userId, c.id, c.resolution)

SpecRace == RefsInit /\ [][RaceNext]_vars

\* ------------------------------------------------------------------------
\* Properties of deleteCategory and of the references (SpecRefs)
\* ------------------------------------------------------------------------
\* the step is a deleteCategory call by a user on a category of theirs
DeletedOwn ==
    /\ reply'.op = "deleteCategory"
    /\ pending' = pending
    /\ CategoryOwned(reply'.call.userId, reply'.call.id)

\* the category reference of every note, by note id
RefsOf(table) == [i \in 1..Len(table) |-> table[i].categoryId]

\* some note of u references c
Referenced(u, c) ==
    \E i \in 1..Len(notes) : notes[i].userId = u /\ notes[i].categoryId = c

\* C17: deleteCategory on a category with at least one dependent note,
\* called with neither reassignTo nor clear, fails with CategoryInUse, and
\* afterwards the category row still exists and every note's categoryId is
\* what it was before the call.
C17_InUseBlocks ==
    [][\A u \in {reply'.call.userId}, c \in {reply'.call.id} :
          (/\ DeletedOwn
           /\ reply'.call.resolution = NoResolution
           /\ Referenced(u, c))
          => /\ reply'.out = "CategoryInUse"
             /\ CategoryOwned(u, c)'
             /\ cats' = cats
             /\ RefsOf(notes') = RefsOf(notes)]_vars

\* a delete with no resolution was refused, and the category and its
\* dependent note are there
C17_Witness ==
    /\ reply.op = "deleteCategory"
    /\ reply.out = "CategoryInUse"
    /\ reply.call.resolution = NoResolution
    /\ CategoryOwned(reply.call.userId, reply.call.id)
    /\ Referenced(reply.call.userId, reply.call.id)

\* C18: deleteCategory with {clear: true} by the owner removes the category
\* row and leaves every note that referenced it with categoryId = null;
\* notes that referenced other categories, and all notes of other owners,
\* keep their categoryId.
C18_ClearNulls ==
    [][\A u \in {reply'.call.userId}, c \in {reply'.call.id} :
          (DeletedOwn /\ reply'.call.resolution = Clear)
          => /\ reply'.out = "Ok"
             /\ ~CategoryExists(c)'
             /\ Len(notes') = Len(notes)
             /\ \A i \in 1..Len(notes) :
                   notes'[i].categoryId =
                       IF notes[i].categoryId = c THEN Null
                       ELSE notes[i].categoryId
             /\ \A i \in 1..Len(notes) :
                   notes[i].userId # u => notes'[i] = notes[i]]_vars

\* the last call cleared the one dependent note of a category and deleted
\* it, while a note of the other owner still has its category
C18_Witness ==
    /\ reply.op = "deleteCategory"
    /\ reply.out = "Ok"
    /\ reply.rows = 1
    /\ reply.call.resolution = Clear
    /\ ~CategoryExists(reply.call.id)
    /\ \E i, j \in 1..Len(notes) :
          /\ notes[i].userId = reply.call.userId
          /\ notes[i].categoryId = Null
          /\ notes[j].userId # reply.call.userId
          /\ notes[j].categoryId # Null

\* the call deleted category c of user u and moved its notes to x
Reassigned(u, c, x) ==
    /\ reply'.out = "Ok"
    /\ ~CategoryExists(c)'
    /\ CategoryOwned(u, x)'
    /\ Len(notes') = Len(notes)
    /\ \A i \in 1..Len(notes) :
          notes'[i].categoryId =
              IF notes[i].userId = u /\ notes[i].categoryId = c THEN x
              ELSE notes[i].categoryId

\* the call failed with InvalidCategory and changed nothing
RefusedInvalid ==
    /\ reply'.out = "InvalidCategory"
    /\ cats' = cats
    /\ RefsOf(notes') = RefsOf(notes)

\* x is another category of the same owner
AnotherOf(u, c, x) ==
    x # c /\ \E k \in 1..Len(cats) :
                CategoryIds[k] = x /\ cats[k].live /\ cats[k].userId = u

C19_ReassignedReached ==
    /\ reply.op = "deleteCategory"
    /\ reply.out = "Ok"
    /\ reply.rows = 2
    /\ CategoryOwned(reply.call.userId, reply.call.resolution.reassignTo)
    /\ ~CategoryExists(reply.call.id)
    /\ \A i \in 1..Len(notes) :
          /\ notes[i].userId = reply.call.userId
          /\ notes[i].categoryId = reply.call.resolution.reassignTo

\* a category with no dependent note was deleted by a call that named
\* itself as the target
C19_NoDependentsReached ==
    /\ reply.op = "deleteCategory"
    /\ reply.out = "Ok"
    /\ reply.call.resolution.reassignTo = reply.call.id
    /\ ~CategoryExists(reply.call.id)

\* C20: in every reachable state, under any interleaving of createNote,
\* assignNoteCategory and deleteCategory (a note creation that references a
\* category while that category is deleted included), every non-null
\* note.categoryId references a category that exists and has the same owner
\* as the note.
C20_RefsValid ==
    \A i \in 1..Len(notes) :
        notes[i].categoryId # Null
        => \E k \in 1..Len(cats) :
              /\ CategoryIds[k] = notes[i].categoryId
              /\ cats[k].live
              /\ cats[k].userId = notes[i].userId

\* a creation whose category was deleted between its check and its insert
\* was refused by the foreign key, while another note holds a reference
C20_Witness ==
    /\ reply = Replied("createNote", "Failure", 0)
    /\ \E i \in 1..Len(notes) : notes[i].categoryId # Null

\* an assignment whose category was deleted between its check and its
\* update was refused by the foreign key
C20_AssignRefusedReached ==
    reply = Replied("assignNoteCategory", "Failure", 0)

\* a creation is between its check and its insert and its category is gone
C20_RaceReached ==
    /\ pending.active
    /\ pending.id = 0
    /\ pending.categoryId # Null
    /\ ~CategoryExists(pending.categoryId)

\* ------------------------------------------------------------------------
\* SpecPager: the NotesPagination component
\* ------------------------------------------------------------------------
\* an entry of the list of page numbers: a page, or "ellipsis"
PageNo(n) == [ellipsis |-> FALSE, page |-> n]
Ellipsis == [ellipsis |-> TRUE, page |-> 0]

\* seven pages shown in full
MaxVisibleSeven == 5 + 2

\* const maxVisible = 5
MaxVisible == 5

\* for (let i = 1; i <= pageCount; i++) pages.push(i)
RECURSIVE AllPages(_, _)
AllPages(i, pageCount) ==
    IF i > pageCount THEN <<>>
    ELSE <<PageNo(i)>> \o AllPages(i + 1, pageCount)

\* an ellipsis already in front of page 2
LeadingEllipsisEarly(currentPage) == currentPage > 2

\* if (currentPage > 3) pages.push("ellipsis")
LeadingEllipsis(currentPage) == currentPage > 3

\* if (currentPage < pageCount - 2) pages.push("ellipsis")
TrailingEllipsis(currentPage, pageCount) == currentPage < pageCount - 2

\* Math.max(2, currentPage - 1) and Math.min(pageCount - 1, currentPage + 1)
WindowStart(currentPage) == MathMax(Num(2), Num(currentPage - 1)).v
WindowEnd(currentPage, pageCount) ==
    MathMin(Num(pageCount - 1), Num(currentPage + 1)).v

\* for (let i = start; i <= end; i++) if (i !== 1 && i !== pageCount) push
RECURSIVE WindowPages(_, _, _)
WindowPages(i, end, pageCount) ==
    IF i > end THEN <<>>
    ELSE (IF i # 1 /\ i # pageCount THEN <<PageNo(i)>> ELSE <<>>)
         \o WindowPages(i + 1, end, pageCount)

getPageNumbers(currentPage, pageCount) ==
    IF pageCount <= MaxVisible
    THEN AllPages(1, pageCount)
    ELSE <<PageNo(1)>>
         \o (IF LeadingEllipsis(currentPage) THEN <<Ellipsis>> ELSE <<>>)
         \o WindowPages(WindowStart(currentPage),
                        WindowEnd(currentPage, pageCount), pageCount)
         \o (IF TrailingEllipsis(currentPage, pageCount)
             THEN <<Ellipsis>> ELSE <<>>)
         \o (IF pageCount > 1 THEN <<PageNo(pageCount)>> ELSE <<>>)

\* createPageUrl: the current query with page set to the text of the number
createPageUrl(sp, page) == [sp EXCEPT !.page = Given(NumberToString(page))]

\* a check that lets every page through
InRangeAlways(page, pageCount) == TRUE

\* if (page < 1 || page > pageCount) return
InRange(page, pageCount) == ~(page < 1 \/ page > pageCount)

\* handlePageChange(page); after router.push the server renders the page
\* again and hands the component the page of the new URL
handlePageChange(page) ==
    IF InRange(page, pager.pageCount)
    THEN /\ searchParams' = createPageUrl(searchParams, page)
         /\ pushes' = pushes + 1
         /\ pager' = [rendered |-> FALSE, shown |-> FALSE,
                      currentPage |->
                          NormalizePage(createPageUrl(searchParams, page).page).v,
                      pageCount |-> pager.pageCount,
                      pages |-> <<>>, asked |-> page]
    ELSE /\ pager' = [pager EXCEPT !.asked = page]
         /\ UNCHANGED <<searchParams, pushes>>

\* the component renders: null when there is one page
NotesPagination ==
    /\ ~pager.rendered
    /\ pager.pageCount >= 1
    /\ pager' = [pager EXCEPT
                    !.rendered = TRUE,
                    !.shown = ~(pager.pageCount <= 1),
                    !.pages = getPageNumbers(pager.currentPage,
                                             pager.pageCount)]
    /\ UNCHANGED <<searchParams, pushes, toolbar, timers>>
    /\ UNCHANGED <<raw, parsed, allNotes, view>>
    /\ UNCHANGED storeVars
    /\ UNCHANGED callVars

\* a click on Previous
PaginationPrevious ==
    /\ pager.rendered /\ pager.shown
    /\ pushes < MaxCalls
    /\ handlePageChange(pager.currentPage - 1)
    /\ UNCHANGED <<toolbar, timers>>
    /\ UNCHANGED <<raw, parsed, allNotes, view>>
    /\ UNCHANGED storeVars
    /\ UNCHANGED callVars

\* a click on Next
PaginationNext ==
    /\ pager.rendered /\ pager.shown
    /\ pushes < MaxCalls
    /\ handlePageChange(pager.currentPage + 1)
    /\ UNCHANGED <<toolbar, timers>>
    /\ UNCHANGED <<raw, parsed, allNotes, view>>
    /\ UNCHANGED storeVars
    /\ UNCHANGED callVars

\* a click on the link of entry i of the page numbers
PaginationLink(i) ==
    /\ pager.rendered /\ pager.shown
    /\ pushes < MaxCalls
    /\ i <= Len(pager.pages)
    /\ ~pager.pages[i].ellipsis
    /\ handlePageChange(pager.pages[i].page)
    /\ UNCHANGED <<toolbar, timers>>
    /\ UNCHANGED <<raw, parsed, allNotes, view>>
    /\ UNCHANGED storeVars
    /\ UNCHANGED callVars

\* the URLs the dashboard is loaded at, and the props NotesPage hands over
PagerUrls ==
    [q : {Missing, Given(<<"A", "b">>)},
     category : {Missing},
     page : {Missing} \cup {Given(NumberToString(n)) : n \in 1..MaxPages},
     pageSize : {Missing, Given(<<"5">>)},
     includeArchived : {Missing}]

PagerInit ==
    /\ StoreInit
    /\ raw = Missing
    /\ parsed = NotParsed
    /\ allNotes = <<>>
    /\ view = NotRendered
    /\ searchParams \in PagerUrls
    /\ \E n \in 1..MaxPages :
          /\ NormalizePage(searchParams.page).v <= n
          /\ pager = [rendered |-> FALSE, shown |-> FALSE,
                      currentPage |-> NormalizePage(searchParams.page).v,
                      pageCount |-> n, pages |-> <<>>,
                      asked |-> NormalizePage(searchParams.page).v]
    /\ toolbar = NotMounted
    /\ timers = <<>>
    /\ pushes = 0

PagerNext ==
    \/ NotesPagination
    \/ PaginationPrevious
    \/ PaginationNext
    \/ \E i \in 1..(MaxVisible + 2) : PaginationLink(i)

SpecPager == PagerInit /\ [][PagerNext]_vars

\* ------------------------------------------------------------------------
\* Properties of the pagination component (SpecPager)
\* ------------------------------------------------------------------------
\* the list of page numbers has the page n
HasPage(n) ==
    \E i \in 1..Len(pager.pages) : pager.pages[i] = PageNo(n)

\* C24: getPageNumbers, for 1 <= currentPage <= pageCount: when pageCount <=
\* 5 it returns exactly the pages 1..pageCount with no ellipsis; when
\* pageCount > 5 it always contains page 1, page pageCount, currentPage and
\* those of currentPage-1 and currentPage+1 that lie in [1, pageCount], with
\* a leading ellipsis exactly when currentPage > 3 and a trailing ellipsis
\* exactly when currentPage < pageCount - 2.
C24_PageNumbers ==
    pager.rendered =>
        LET cur == pager.currentPage
            pc == pager.pageCount
            ps == pager.pages
        IN  IF pc <= 5
            THEN ps = [i \in 1..pc |-> PageNo(i)]
            ELSE /\ HasPage(1) /\ HasPage(pc) /\ HasPage(cur)
                 /\ cur - 1 >= 1 => HasPage(cur - 1)
                 /\ cur + 1 <= pc => HasPage(cur + 1)
                 /\ ps[1] = PageNo(1)
                 /\ ps[Len(ps)] = PageNo(pc)
                 /\ ps[2].ellipsis <=> cur > 3
                 /\ ps[Len(ps) - 1].ellipsis <=> cur < pc - 2
                 /\ \A i \in 1..Len(ps) :
                       ps[i].ellipsis => i \in {2, Len(ps) - 1}

\* seven pages, the current one in the middle: an ellipsis on both sides
C24_Witness ==
    /\ pager.rendered
    /\ pager.pageCount = 7
    /\ pager.currentPage = 4
    /\ pager.pages[2].ellipsis
    /\ pager.pages[Len(pager.pages) - 1].ellipsis

\* five pages: all of them, no ellipsis
C24_AllPagesReached ==
    /\ pager.rendered
    /\ pager.pageCount = 5
    /\ Len(pager.pages) = 5

\* C25: handlePageChange never navigates outside the valid range: a request
\* for a page < 1 or > pageCount (Previous on page 1, Next on the last page)
\* causes no navigation, and a request for a page in [1, pageCount]
\* navigates to a URL whose page parameter is that page with every other
\* query parameter unchanged.
C25_PageChangeInRange ==
    [][(pager.rendered /\ pager' # pager) =>
          LET page == pager'.asked
          IN  IF page < 1 \/ page > pager.pageCount
              THEN searchParams' = searchParams /\ pushes' = pushes
              ELSE /\ pushes' = pushes + 1
                   /\ NormalizePage(searchParams'.page) = Num(page)
                   /\ searchParams'.page.present
                   /\ DecimalValue(searchParams'.page.text) = page
                   /\ searchParams'.q = searchParams.q
                   /\ searchParams'.category = searchParams.category
                   /\ searchParams'.pageSize = searchParams.pageSize
                   /\ searchParams'.includeArchived =
                          searchParams.includeArchived]_vars

\* a navigation to the page asked for, with the query and the page size of
\* the URL kept
C25_Witness ==
    /\ pushes = 1
    /\ pager.asked = 3
    /\ pager.currentPage = 3
    /\ searchParams.page = Given(<<"3">>)
    /\ searchParams.q.present
    /\ searchParams.pageSize.present

\* Previous on page 1 and Next on the last page were refused
C25_PreviousRefusedReached ==
    pager.rendered /\ pager.currentPage = 1 /\ pager.asked = 0 /\ pushes = 0

C25_NextRefusedReached ==
    /\ pager.rendered
    /\ pager.currentPage = pager.pageCount
    /\ pager.asked = pager.pageCount + 1
    /\ pushes = 0

\* C29: for every pageCount >= 1 and every currentPage in [1, pageCount],
\* the list returned by getPageNumbers has its page numbers in strictly
\* increasing order with no duplicate, never has two ellipses in a row, and
\* has an ellipsis between two neighbouring numbers exactly when those
\* numbers are not consecutive integers.
C29_PageOrder ==
    pager.rendered =>
        LET ps == pager.pages
            IsNumber(i) == ~ps[i].ellipsis
            Neighbours(i, j) ==
                /\ i < j /\ IsNumber(i) /\ IsNumber(j)
                /\ \A k \in (i + 1)..(j - 1) : ~IsNumber(k)
        IN  /\ \A i, j \in 1..Len(ps) :
                  (i < j /\ IsNumber(i) /\ IsNumber(j))
                  => ps[i].page < ps[j].page
            /\ \A i \in 1..(Len(ps) - 1) :
                  ~(ps[i].ellipsis /\ ps[i + 1].ellipsis)
            /\ \A i, j \in 1..Len(ps) :
                  Neighbours(i, j)
                  => ((j > i + 1) <=> (ps[j].page # ps[i].page + 1))

\* eight pages, on page 3: no ellipsis after page 1, one before page 8
C29_Witness ==
    /\ pager.rendered
    /\ pager.pageCount = 8
    /\ pager.currentPage = 3
    /\ pager.pages =
           <<PageNo(1), PageNo(2), PageNo(3), PageNo(4), Ellipsis, PageNo(8)>>

\* ------------------------------------------------------------------------
\* SpecToolbar: the NotesToolbar component
\* ------------------------------------------------------------------------
\* what a pending timer will run: updateURL of the render that armed it,
\* closed over that render's state and that render's useSearchParams()
Closure(search, category, includeArchived, params) ==
    [search |-> search, category |-> category,
     includeArchived |-> includeArchived, params |-> params]

\* a clean-up that clears nothing
CleanupNothing(ts) == ts

\* the effect's clean-up: clearTimeout(timer) of the timer armed last
Cleanup(ts) == IF ts = <<>> THEN <<>> ELSE SubSeq(ts, 1, Len(ts) - 1)

\* useEffect on [search, category, includeArchived]: the clean-up of the
\* previous run, then setTimeout(() => updateURL(), 300)
Effect(ts, closure) == Append(Cleanup(ts), closure)

\* updateURL up to the page: q, category and includeArchived set or deleted
FilterParams(c) ==
    [c.params EXCEPT
        !.q = IF Len(Trim(c.search)) >= 2
              THEN Given(Trim(c.search)) ELSE Missing,
        !.category = IF c.category # Null /\ c.category # ""
                     THEN Given(c.category) ELSE Missing,
        !.includeArchived = IF c.includeArchived
                            THEN Given("true") ELSE Missing]

\* an update that keeps the page of the URL
UpdatedParamsKeepPage(c) == FilterParams(c)

\* the query updateURL pushes: params.set("page", "1") last
UpdatedParams(c) == [FilterParams(c) EXCEPT !.page = Given(<<"1">>)]

\* the component mounts: state from the initial props NotesPage passes,
\* and the effect runs for the first time
NotesToolbar ==
    /\ ~toolbar.mounted
    /\ toolbar' = [mounted |-> TRUE,
                   search |-> SearchQueryOf(searchParams),
                   category |-> CategoryIdOf(searchParams),
                   includeArchived |-> IncludeArchivedOf(searchParams),
                   loaded |-> searchParams,
                   changes |-> 0]
    /\ timers' = Effect(timers,
                        Closure(SearchQueryOf(searchParams),
                                CategoryIdOf(searchParams),
                                IncludeArchivedOf(searchParams),
                                searchParams))
    /\ UNCHANGED <<searchParams, pushes, pager>>
    /\ UNCHANGED <<raw, parsed, allNotes, view>>
    /\ UNCHANGED storeVars
    /\ UNCHANGED callVars

\* a state setter called with values that differ from the state: only then
\* does the component render again and the effect run again
Differs(search, category, includeArchived) ==
    /\ toolbar.mounted
    /\ toolbar.changes < MaxCalls
    /\ <<search, category, includeArchived>> #
           <<toolbar.search, toolbar.category, toolbar.includeArchived>>

\* the state after the setters
SetState(search, category, includeArchived) ==
    [toolbar EXCEPT !.search = search,
                    !.category = category,
                    !.includeArchived = includeArchived,
                    !.changes = toolbar.changes + 1]

handleSearchChange(value) ==
    /\ Differs(value, toolbar.category, toolbar.includeArchived)
    /\ toolbar' = SetState(value, toolbar.category, toolbar.includeArchived)
    /\ timers' = Effect(timers,
                        Closure(value, toolbar.category,
                                toolbar.includeArchived, searchParams))
    /\ UNCHANGED <<searchParams, pushes, pager>>
    /\ UNCHANGED <<raw, parsed, allNotes, view>>
    /\ UNCHANGED storeVars
    /\ UNCHANGED callVars

\* value === "all" ? null : value
SelectedCategory(value) == IF value = "all" THEN Null ELSE value

handleCategoryChange(value) ==
    /\ Differs(toolbar.search, SelectedCategory(value),
               toolbar.includeArchived)
    /\ toolbar' = SetState(toolbar.search, SelectedCategory(value),
                           toolbar.includeArchived)
    /\ timers' = Effect(timers,
                        Closure(toolbar.search, SelectedCategory(value),
                                toolbar.includeArchived, searchParams))
    /\ UNCHANGED <<searchParams, pushes, pager>>
    /\ UNCHANGED <<raw, parsed, allNotes, view>>
    /\ UNCHANGED storeVars
    /\ UNCHANGED callVars

handleArchiveToggle(checked) ==
    /\ Differs(toolbar.search, toolbar.category, checked)
    /\ toolbar' = SetState(toolbar.search, toolbar.category, checked)
    /\ timers' = Effect(timers,
                        Closure(toolbar.search, toolbar.category, checked,
                                searchParams))
    /\ UNCHANGED <<searchParams, pushes, pager>>
    /\ UNCHANGED <<raw, parsed, allNotes, view>>
    /\ UNCHANGED storeVars
    /\ UNCHANGED callVars

\* 300 ms passed since a timer was armed: it runs updateURL
updateURL ==
    /\ timers # <<>>
    /\ searchParams' = UpdatedParams(Head(timers))
    /\ pushes' = pushes + 1
    /\ timers' = Tail(timers)
    /\ UNCHANGED <<toolbar, pager>>
    /\ UNCHANGED <<raw, parsed, allNotes, view>>
    /\ UNCHANGED storeVars
    /\ UNCHANGED callVars

\* what is typed in the search box, and the entries of the category select
SearchTexts == {<<>>, <<"a">>, <<"A", "b">>, <<" ", "A", "b">>}
SelectValues == {"all", "cat-1"}

\* the URLs the dashboard is loaded at
ToolbarUrls ==
    [q : {Missing, Given(<<"a">>), Given(<<"A", "b">>)},
     category : {Missing, Given("cat-1")},
     page : {Missing, Given(<<"2">>)},
     pageSize : {Missing, Given(<<"5">>)},
     includeArchived : {Missing, Given("true")}]

ToolbarInit ==
    /\ StoreInit
    /\ raw = Missing
    /\ parsed = NotParsed
    /\ allNotes = <<>>
    /\ view = NotRendered
    /\ searchParams \in ToolbarUrls
    /\ ClientIdle

ToolbarNext ==
    \/ NotesToolbar
    \/ \E value \in SearchTexts : handleSearchChange(value)
    \/ \E value \in SelectValues : handleCategoryChange(value)
    \/ \E checked \in BOOLEAN : handleArchiveToggle(checked)
    \/ updateURL

SpecToolbar == ToolbarInit /\ [][ToolbarNext]_vars

\* ------------------------------------------------------------------------
\* Properties of the toolbar (SpecToolbar)
\* ------------------------------------------------------------------------
\* the URL carries all five parameters
CarriesAll(sp) ==
    /\ sp.q.present /\ sp.category.present /\ sp.includeArchived.present
    /\ sp.page.present /\ sp.pageSize.present

\* C23: filter and pagination state persists in the URL: after the
\* dashboard is loaded at a URL carrying q, category, includeArchived, page
\* and pageSize, and as long as the user changes nothing in the toolbar,
\* all of these parameters, including page, stay at their loaded values.
C23_UrlStatePersists ==
    (toolbar.mounted /\ toolbar.changes = 0 /\ CarriesAll(toolbar.loaded))
    => /\ searchParams.q = toolbar.loaded.q
       /\ searchParams.category = toolbar.loaded.category
       /\ searchParams.includeArchived = toolbar.loaded.includeArchived
       /\ searchParams.page = toolbar.loaded.page
       /\ searchParams.pageSize = toolbar.loaded.pageSize

\* the toolbar's own state is the one the next update will carry
Latest(c) ==
    /\ c.search = toolbar.search
    /\ c.category = toolbar.category
    /\ c.includeArchived = toolbar.includeArchived

\* C26: the toolbar debounces URL updates: each change of search text,
\* category or includeArchived cancels the pending update and schedules a
\* new one, so a burst of changes with no quiet period between them
\* produces exactly one URL update, issued after the last change and
\* carrying the latest values of all three inputs.
C26_Debounce ==
    [][/\ toolbar'.changes = toolbar.changes + 1
          => /\ pushes' = pushes
             /\ searchParams' = searchParams
             /\ Len(timers') = 1
             /\ timers'[1].search = toolbar'.search
             /\ timers'[1].category = toolbar'.category
             /\ timers'[1].includeArchived = toolbar'.includeArchived
       /\ pushes' # pushes
          => /\ pushes' = pushes + 1
             /\ Len(timers) = 1
             /\ timers' = <<>>
             /\ toolbar' = toolbar
             /\ Latest(timers[1])
             /\ searchParams' = UpdatedParams(timers[1])]_vars

\* two changes in a row, then one update that carries the second one
C26_Witness ==
    /\ toolbar.changes = 2
    /\ pushes = 1
    /\ timers = <<>>
    /\ toolbar.search = <<"A", "b">>
    /\ toolbar.includeArchived
    /\ ~IncludeArchivedOf(toolbar.loaded)
    /\ searchParams.q = Given(<<"A", "b">>)
    /\ searchParams.includeArchived = Given("true")

\* C27: when the search text, category or includeArchived filter changes,
\* the toolbar's URL update resets page to 1, writes q only when the
\* trimmed search has length >= 2 (otherwise removes q), writes category
\* only when one is selected, writes includeArchived=true only when the
\* toggle is on, and leaves every other parameter such as pageSize
\* unchanged.
C27_UpdateResetsPage ==
    [][pushes' # pushes
       => /\ searchParams'.page = Given(<<"1">>)
          /\ searchParams'.q =
                 (IF Len(Trim(toolbar.search)) >= 2
                  THEN Given(Trim(toolbar.search)) ELSE Missing)
          /\ searchParams'.category =
                 (IF toolbar.category = Null
                  THEN Missing ELSE Given(toolbar.category))
          /\ searchParams'.includeArchived =
                 (IF toolbar.includeArchived THEN Given("true") ELSE Missing)
          /\ searchParams'.pageSize = searchParams.pageSize]_vars

\* loaded on page 2 with a page size; a search typed with a leading blank:
\* the update wrote the trimmed text, page 1, and kept the page size
C27_Witness ==
    /\ toolbar.changes = 1
    /\ pushes = 1
    /\ toolbar.loaded.page = Given(<<"2">>)
    /\ toolbar.search = <<" ", "A", "b">>
    /\ searchParams.q = Given(<<"A", "b">>)
    /\ searchParams.page = Given(<<"1">>)
    /\ searchParams.pageSize = Given(<<"5">>)
    /\ searchParams.category = Missing

\* a search of one character: q removed
C27_ShortSearchReached ==
    /\ toolbar.changes = 1
    /\ pushes = 1
    /\ toolbar.search = <<"a">>
    /\ toolbar.loaded.q = Given(<<"A", "b">>)
    /\ searchParams.q = Missing

====
